---- MODULE Spec2Model ----
(***************************************************************************)
(* Groundwater module of EPA SWMM5 (gwater.c): the two-zone groundwater    *)
(* state of a subcatchment, its validation, initialisation, hot-start      *)
(* save/restore, stored volume, and the step driver gwater_getGroundwater  *)
(* with its flux functions.                                                *)
(*                                                                         *)
(* Numbers.  The code computes in doubles.  Here every real is an integer  *)
(* on a fixed grid:                                                        *)
(*   lengths, elevations, moisture contents, fractions : k stands for k/S  *)
(*   rates (ft/s), volumes per unit area (ft)          : k stands for k/S^2*)
(*   volumes (ft3) = rate * area * tStep               : k stands for k/S^2*)
(*   area (ft2) and tStep (s)                          : plain integers    *)
(* so that a length times a moisture content is a volume per unit area     *)
(* with no rescaling.  A real division is the floor of the quotient (Div). *)
(***************************************************************************)
EXTENDS Integers, Sequences, FiniteSets, TLC

\* ------------------------------------------------------------------ numbers

\* grid: the integer that stands for 1.0 (length, moisture, fraction)
S == 4000

\* static const double XTOL = 0.001 (tolerance for moisture & depth), = S/1000
XTOL == 4

\* the reserved value of an unspecified optional field (x[i] = MISSING)
MISSING == -1000000

\* results of a division by zero (IEEE: +inf, -inf, nan), kept as opaque values
INF == 900000000
NAN == 900000001

MAX(a, b) == IF a >= b THEN a ELSE b
MIN(a, b) == IF a <= b THEN a ELSE b

\* a / b in doubles, b >= 0
Div(a, b) ==
    IF b = 0 THEN (IF a > 0 THEN INF ELSE IF a < 0 THEN -INF ELSE NAN)
    ELSE a \div b

\* pow(x, b) for a natural exponent b
RECURSIVE Pow(_, _)
Pow(x, b) == IF b = 0 THEN 1 ELSE x * Pow(x, b - 1)

\* exp(-n ln 2) * v :  v halved n times (n >= 0)
RECURSIVE Halve(_, _)
Halve(v, n) == IF n <= 0 THEN v ELSE Halve(v \div 2, n - 1)

\* unit conversion factors UCF(quantity): user units per internal unit
UCF_LENGTH == 1
UCF_RAINFALL == 2
UCF_GWFLOW == 2
UCF_LANDAREA == 1

\* ------------------------------------------------------------------ bounds

\* the solver evaluates the derivative at most MaxEvals times per step
MaxEvals == 1
\* the number of steps (calls of the mass balance sink) of a run
MaxSteps == 2

\* ------------------------------------------------------------------ state

VARIABLES
    Aquifer,        \* sp->Aquifer[]  : aquifer index -> TAquifer
    Subcatch,       \* sp->Subcatch[] : subcatchment index -> groundwater part
    Node,           \* sp->Node[]     : node index -> invertElev, newDepth, ...
    Evap,           \* sp->Evap       : current climate evaporation rate
    NewRunoffMonth, \* datetime_monthOfYear(getDateTime(sp->NewRunoffTime))
    GwaterShared,   \* sp->GwaterShared : the shared computation context
    ErrorCode,      \* errors written by report_writeErrorMsg
    phase,          \* which objects are validated / initialised
    step,           \* position and locals of a running gwater_getGroundwater
    massbal,        \* calls of massbal_updateGwaterTotals (count, last volumes)
    stats,          \* calls of stats_updateGwaterStats (count, last values)
    hotstart,       \* x[] written by gwater_getState (hot start file record)
    Landuse,        \* sp->Landuse[] : land use index -> buildup and washoff functions
    landFactor,     \* Subcatch[].landFactor[] : land use index -> fraction, buildup
    last            \* the operation that acted last, with the state before it

vars == <<Aquifer, Subcatch, Node, Evap, NewRunoffMonth, GwaterShared,
          ErrorCode, phase, step, massbal, stats, hotstart, Landuse,
          landFactor, last>>

\* a project without land uses
NoLanduse == << >>

\* ------------------------------------------------------------------ patterns

MONTHLY_PATTERN == 0
DAILY_PATTERN == 1

\* sp->Pattern[] : two time patterns, the first monthly (factors 0.5 in
\* winter, 1.5 in summer), the second a daily one
Pattern ==
    [p \in {0, 1} |->
        [type   |-> IF p = 0 THEN MONTHLY_PATTERN ELSE DAILY_PATTERN,
         factor |-> [m \in 1..12 |-> IF m \in 4..9 THEN (3 * S) \div 2
                                     ELSE S \div 2]]]

\* ------------------------------------------------------------------ expressions

\* enum GWvariables
gwvHGW == 0
gwvHSW == 1
gwvHCB == 2
gwvHGS == 3
gwvKS == 4
gwvK == 5
gwvTHETA == 6
gwvPHI == 7
gwvFI == 8
gwvFU == 9
gwvA == 10
gwvMAX == 11

\* value of a GW variable in user units, on the rate grid k/S^2
getVariableValue(g, varIndex) ==
    CASE varIndex = gwvHGW   -> g.Hgw * UCF_LENGTH * S
      [] varIndex = gwvHSW   -> g.Hsw * UCF_LENGTH * S
      [] varIndex = gwvHCB   -> g.Hstar * UCF_LENGTH * S
      [] varIndex = gwvHGS   -> g.TotalDepth * UCF_LENGTH * S
      [] varIndex = gwvKS    -> g.A.conductivity * UCF_RAINFALL
      [] varIndex = gwvK     -> g.HydCon * UCF_RAINFALL
      [] varIndex = gwvTHETA -> g.Theta * S
      [] varIndex = gwvPHI   -> g.A.porosity * S
      [] varIndex = gwvFI    -> g.Infil * UCF_RAINFALL
      [] varIndex = gwvFU    -> g.UpperPerc * UCF_RAINFALL
      [] varIndex = gwvA     -> g.Area * UCF_LANDAREA * S * S
      [] OTHER               -> 0

\* A compiled expression is the empty sequence (NULL) or <<c, v>>, the tree of
\* the formula "c * v" for a number c and a GW variable v.
NoExpr == <<>>

mathexpr_eval(expr, g) == expr[1] * getVariableValue(g, expr[2])

\* ------------------------------------------------------------------ fluxes

\* getEvapRates without its test of the infiltration rate
getEvapRates_noInfilTest(g, theta, upperDepth) ==
    LET z == [g EXCEPT !.UpperEvap = 0, !.LowerEvap = 0]
        p == g.A.upperEvapPat
        f == IF p >= 0 THEN Pattern[p].factor[NewRunoffMonth] ELSE S
        upperFrac == (g.A.upperEvapFrac * f) \div S
        ue == IF theta > g.A.wiltingPoint
              THEN MIN((upperFrac * g.MaxEvap) \div S, g.AvailEvap)
              ELSE 0
        lowerFrac == MIN(MAX(0, Div((g.A.lowerEvapDepth - upperDepth) * S,
                                    g.A.lowerEvapDepth)), S)
        le == IF g.A.lowerEvapDepth > 0
              THEN MIN((((lowerFrac * (S - upperFrac)) \div S) * g.MaxEvap) \div S,
                       g.AvailEvap - ue)
              ELSE 0
    IN  [z EXCEPT !.UpperEvap = ue, !.LowerEvap = le]

\* getEvapRates: the context with UpperEvap and LowerEvap set
getEvapRates(g, theta, upperDepth) ==
    LET z == [g EXCEPT !.UpperEvap = 0, !.LowerEvap = 0]
        p == g.A.upperEvapPat
        f == IF p >= 0 THEN Pattern[p].factor[NewRunoffMonth] ELSE S
        upperFrac == (g.A.upperEvapFrac * f) \div S
        ue == IF theta > g.A.wiltingPoint
              THEN MIN((upperFrac * g.MaxEvap) \div S, g.AvailEvap)
              ELSE 0
        lowerFrac == MIN(MAX(0, Div((g.A.lowerEvapDepth - upperDepth) * S,
                                    g.A.lowerEvapDepth)), S)
        le == IF g.A.lowerEvapDepth > 0
              THEN MIN((((lowerFrac * (S - upperFrac)) \div S) * g.MaxEvap) \div S,
                       g.AvailEvap - ue)
              ELSE 0
    IN  IF g.Infil > 0 THEN z
        ELSE [z EXCEPT !.UpperEvap = ue, !.LowerEvap = le]

\* exp(delta * conductSlope) * v, the slope counted in units of S * ln 2 so
\* that the exponent is delta * conductSlope times ln 2
ExpTimes(v, n) == IF n <= 0 THEN Halve(v, -n) ELSE v * Pow(2, n)

\* getUpperPerc: <<the returned rate, the context (HydCon saved)>>
getUpperPerc(g, theta, upperDepth) ==
    IF upperDepth <= 0 \/ theta <= g.A.fieldCapacity THEN <<0, g>>
    ELSE LET hydcon == ExpTimes(g.A.conductivity,
                                (theta - g.A.porosity) * g.A.conductSlope)
             delta  == theta - g.A.fieldCapacity
             dhdz   == S + Div(g.A.tensionSlope * 2 * delta, upperDepth)
         IN  <<(hydcon * dhdz) \div S, [g EXCEPT !.HydCon = hydcon]>>

\* getGWFlow without its test of the water table against Hstar
getGWFlow_noThreshold(g, gw, lowerDepth) ==
    LET t1 == IF gw.b1 = 0 THEN gw.a1
              ELSE gw.a1 * Pow((lowerDepth - g.Hstar) * UCF_LENGTH, gw.b1)
        t2 == IF gw.b2 = 0 THEN gw.a2
              ELSE IF g.Hsw > g.Hstar
                   THEN gw.a2 * Pow((g.Hsw - g.Hstar) * UCF_LENGTH, gw.b2)
                   ELSE 0
        t3 == gw.a3 * lowerDepth * g.Hsw * UCF_LENGTH * UCF_LENGTH
        q  == Div(t1 - t2 + t3, UCF_GWFLOW)
    IN  IF q < 0 /\ gw.a3 # 0 THEN 0 ELSE q

\* getGWFlow clamping a negative result whatever a3 is
getGWFlow_clampAlways(g, gw, lowerDepth) ==
    IF lowerDepth <= g.Hstar THEN 0
    ELSE LET t1 == IF gw.b1 = 0 THEN gw.a1
                   ELSE gw.a1 * Pow((lowerDepth - g.Hstar) * UCF_LENGTH, gw.b1)
             t2 == IF gw.b2 = 0 THEN gw.a2
                   ELSE IF g.Hsw > g.Hstar
                        THEN gw.a2 * Pow((g.Hsw - g.Hstar) * UCF_LENGTH, gw.b2)
                        ELSE 0
             t3 == gw.a3 * lowerDepth * g.Hsw * UCF_LENGTH * UCF_LENGTH
             q  == Div(t1 - t2 + t3, UCF_GWFLOW)
         IN  IF q < 0 THEN 0 ELSE q

\* getGWFlow: the built-in lateral flow for the groundwater object gw
getGWFlow(g, gw, lowerDepth) ==
    IF lowerDepth <= g.Hstar THEN 0
    ELSE LET t1 == IF gw.b1 = 0 THEN gw.a1
                   ELSE gw.a1 * Pow((lowerDepth - g.Hstar) * UCF_LENGTH, gw.b1)
             t2 == IF gw.b2 = 0 THEN gw.a2
                   ELSE IF g.Hsw > g.Hstar
                        THEN gw.a2 * Pow((g.Hsw - g.Hstar) * UCF_LENGTH, gw.b2)
                        ELSE 0
             t3 == gw.a3 * lowerDepth * g.Hsw * UCF_LENGTH * UCF_LENGTH
             q  == Div(t1 - t2 + t3, UCF_GWFLOW)
         IN  IF q < 0 /\ gw.a3 # 0 THEN 0 ELSE q

\* getFluxes finding the deep loss from the aquifer's coefficient always
getFluxes_coeffOnly(g, gw, theta, lowerDepth0) ==
    LET lowerDepth == MIN(MAX(lowerDepth0, 0), g.TotalDepth)
        upperDepth == g.TotalDepth - lowerDepth
        g1 == [g EXCEPT !.Hgw = lowerDepth, !.Theta = theta]
        g2 == getEvapRates(g1, theta, upperDepth)
        up == getUpperPerc(g2, theta, upperDepth)
        g3 == [up[2] EXCEPT !.UpperPerc = MIN(up[1], g.MaxUpperPerc)]
        ll == Div(g3.A.lowerLossCoeff * lowerDepth, g3.TotalDepth)
        g4 == [g3 EXCEPT !.LowerLoss = MIN(ll, Div(lowerDepth * S, g3.Tstep))]
        q0 == getGWFlow(g4, gw, lowerDepth)
        q1 == IF g4.LatFlowExpr # NoExpr
              THEN q0 + Div(mathexpr_eval(g4.LatFlowExpr, g4), UCF_GWFLOW)
              ELSE q0
        q  == IF q1 >= 0 THEN MIN(q1, g4.MaxGWFlowPos)
                         ELSE MAX(q1, g4.MaxGWFlowNeg)
    IN  [g4 EXCEPT !.GWFlow = q]

\* getFluxes without the ceiling on the percolation rate
getFluxes_noPercCeiling(g, gw, theta, lowerDepth0) ==
    LET lowerDepth == MIN(MAX(lowerDepth0, 0), g.TotalDepth)
        upperDepth == g.TotalDepth - lowerDepth
        g1 == [g EXCEPT !.Hgw = lowerDepth, !.Theta = theta]
        g2 == getEvapRates(g1, theta, upperDepth)
        up == getUpperPerc(g2, theta, upperDepth)
        g3 == [up[2] EXCEPT !.UpperPerc = up[1]]
        ll == IF g3.DeepFlowExpr # NoExpr
              THEN Div(mathexpr_eval(g3.DeepFlowExpr, g3), UCF_RAINFALL)
              ELSE Div(g3.A.lowerLossCoeff * lowerDepth, g3.TotalDepth)
        g4 == [g3 EXCEPT !.LowerLoss = MIN(ll, Div(lowerDepth * S, g3.Tstep))]
        q0 == getGWFlow(g4, gw, lowerDepth)
        q1 == IF g4.LatFlowExpr # NoExpr
              THEN q0 + Div(mathexpr_eval(g4.LatFlowExpr, g4), UCF_GWFLOW)
              ELSE q0
        q  == IF q1 >= 0 THEN MIN(q1, g4.MaxGWFlowPos)
                         ELSE MAX(q1, g4.MaxGWFlowNeg)
    IN  [g4 EXCEPT !.GWFlow = q]

\* getFluxes with the user's lateral expression taking the place of the
\* built-in formula
getFluxes_exprReplaces(g, gw, theta, lowerDepth0) ==
    LET lowerDepth == MIN(MAX(lowerDepth0, 0), g.TotalDepth)
        upperDepth == g.TotalDepth - lowerDepth
        g1 == [g EXCEPT !.Hgw = lowerDepth, !.Theta = theta]
        g2 == getEvapRates(g1, theta, upperDepth)
        up == getUpperPerc(g2, theta, upperDepth)
        g3 == [up[2] EXCEPT !.UpperPerc = MIN(up[1], g.MaxUpperPerc)]
        ll == IF g3.DeepFlowExpr # NoExpr
              THEN Div(mathexpr_eval(g3.DeepFlowExpr, g3), UCF_RAINFALL)
              ELSE Div(g3.A.lowerLossCoeff * lowerDepth, g3.TotalDepth)
        g4 == [g3 EXCEPT !.LowerLoss = MIN(ll, Div(lowerDepth * S, g3.Tstep))]
        q1 == IF g4.LatFlowExpr # NoExpr
              THEN Div(mathexpr_eval(g4.LatFlowExpr, g4), UCF_GWFLOW)
              ELSE getGWFlow(g4, gw, lowerDepth)
        q  == IF q1 >= 0 THEN MIN(q1, g4.MaxGWFlowPos)
                         ELSE MAX(q1, g4.MaxGWFlowNeg)
    IN  [g4 EXCEPT !.GWFlow = q]

\* getFluxes: the context after one flux evaluation at (theta, lowerDepth)
getFluxes(g, gw, theta, lowerDepth0) ==
    LET lowerDepth == MIN(MAX(lowerDepth0, 0), g.TotalDepth)
        upperDepth == g.TotalDepth - lowerDepth
        g1 == [g EXCEPT !.Hgw = lowerDepth, !.Theta = theta]
        g2 == getEvapRates(g1, theta, upperDepth)
        up == getUpperPerc(g2, theta, upperDepth)
        g3 == [up[2] EXCEPT !.UpperPerc = MIN(up[1], g.MaxUpperPerc)]
        ll == IF g3.DeepFlowExpr # NoExpr
              THEN Div(mathexpr_eval(g3.DeepFlowExpr, g3), UCF_RAINFALL)
              ELSE Div(g3.A.lowerLossCoeff * lowerDepth, g3.TotalDepth)
        g4 == [g3 EXCEPT !.LowerLoss = MIN(ll, Div(lowerDepth * S, g3.Tstep))]
        q0 == getGWFlow(g4, gw, lowerDepth)
        q1 == IF g4.LatFlowExpr # NoExpr
              THEN q0 + Div(mathexpr_eval(g4.LatFlowExpr, g4), UCF_GWFLOW)
              ELSE q0
        q  == IF q1 >= 0 THEN MIN(q1, g4.MaxGWFlowPos)
                         ELSE MAX(q1, g4.MaxGWFlowNeg)
    IN  [g4 EXCEPT !.GWFlow = q]

\* getDxDt: <<dxdt[THETA], dxdt[LOWERDEPTH]>> from the context after getFluxes
getDxDt(g, x) ==
    LET qUpper == g.Infil - g.UpperEvap - g.UpperPerc
        qLower == g.UpperPerc - g.LowerLoss - g.LowerEvap - g.GWFlow
        d1 == g.TotalDepth - x[2]
        d2 == g.A.porosity - x[1]
    IN  << IF d1 > 0 THEN Div(qUpper, d1) ELSE 0,
           IF d2 > 0 THEN Div(qLower, d2) ELSE 0 >>

\* ------------------------------------------------------------------ project

\* aquifers read by gwater_readAquiferParams
AqBase ==
    [porosity |-> 12, wiltingPoint |-> 2, fieldCapacity |-> 6,
     conductivity |-> 16, conductSlope |-> 1, tensionSlope |-> 4,
     upperEvapFrac |-> S \div 2, lowerEvapDepth |-> 14, lowerLossCoeff |-> 0,
     bottomElev |-> 0, waterTableElev |-> 4, upperMoisture |-> 5,
     upperEvapPat |-> -1]

\* deep loss coefficient, wetter soil, monthly evaporation pattern
AqLoss ==
    [AqBase EXCEPT !.lowerLossCoeff = 8, !.upperMoisture = 8,
                   !.upperEvapPat = 0, !.bottomElev = 1,
                   !.waterTableElev = 5]

\* porosity - wiltingPoint below XTOL, initial moisture at porosity
AqThin ==
    [AqBase EXCEPT !.porosity = 3, !.wiltingPoint = 1, !.fieldCapacity = 2,
                   !.upperMoisture = 3]

\* groundwater objects read by gwater_readGroundwaterParams; the state
\* fields are written by gwater_initState before anything reads them
GwBase ==
    [aquifer |-> 1, node |-> 1, surfElev |-> 16,
     a1 |-> 14, b1 |-> 0, a2 |-> 0, b2 |-> 0, a3 |-> 0,
     fixedDepth |-> 0, nodeElev |-> MISSING, bottomElev |-> MISSING,
     waterTableElev |-> MISSING, upperMoisture |-> MISSING,
     theta |-> 0, lowerDepth |-> 0, oldFlow |-> 0, newFlow |-> 0,
     evapLoss |-> 0, maxInfilVol |-> 0]

SubBase ==
    [groundwater |-> TRUE, gw |-> GwBase, fracPerv |-> S, area |-> 2,
     gwLatFlowExpr |-> NoExpr, gwDeepFlowExpr |-> NoExpr]

\* the projects: one aquifer and one subcatchment each
Configs ==
    { [aquifer |-> AqBase, sub |-> SubBase],
      \* power-law groundwater term, deep loss, evaporation pattern
      [aquifer |-> AqLoss,
       sub |-> [SubBase EXCEPT !.gw.a1 = 4, !.gw.b1 = 1, !.area = 1]],
      \* total depth and porosity - wiltingPoint below XTOL
      [aquifer |-> AqThin,
       sub |-> [SubBase EXCEPT !.gw.surfElev = 2, !.gw.waterTableElev = 1]],
      \* no groundwater object
      [aquifer |-> AqBase, sub |-> [SubBase EXCEPT !.groundwater = FALSE]],
      \* no pervious area
      [aquifer |-> AqBase, sub |-> [SubBase EXCEPT !.fracPerv = 0]],
      \* surface at the aquifer bottom: total depth 0
      [aquifer |-> AqBase,
       sub |-> [SubBase EXCEPT !.gw.surfElev = 0, !.gw.waterTableElev = 0]],
      \* overrides: moisture below the wilting point, water table below bottom
      [aquifer |-> AqBase,
       sub |-> [SubBase EXCEPT !.gw.upperMoisture = 1,
                               !.gw.waterTableElev = -2]],
      \* invalid: surface below the water table
      [aquifer |-> AqBase, sub |-> [SubBase EXCEPT !.gw.surfElev = 3]],
      \* invalid: wilting point not below field capacity
      [aquifer |-> [AqBase EXCEPT !.wiltingPoint = 6], sub |-> SubBase],
      \* invalid: the assigned pattern is not a monthly one
      [aquifer |-> [AqBase EXCEPT !.upperEvapPat = 1], sub |-> SubBase],
      \* surface water term, interaction term, fixed depth, threshold
      \* override, user expressions -1 * HGW (lateral) and 2 * THETA (deep)
      [aquifer |-> AqLoss,
       sub |-> [SubBase EXCEPT !.fracPerv = S \div 2, !.gw.a2 = 2, !.gw.b2 = 1,
                      !.gw.a3 = 1, !.gw.fixedDepth = 4, !.gw.nodeElev = 2,
                      !.gw.bottomElev = 0, !.gw.waterTableElev = 8,
                      !.gwLatFlowExpr = <<-1, gwvHGW>>,
                      !.gwDeepFlowExpr = <<2, gwvTHETA>>]] }

\* the drainage node, dry and with water
NodeDry == [invertElev |-> 2, newDepth |-> 0, inflow |-> 0, newVolume |-> 0]
NodeWet == [invertElev |-> 2, newDepth |-> 6, inflow |-> 40, newVolume |-> 80]

\* the inputs of a step: evap and infil volumes (ft3, on the grid k/S^2) and
\* tStep passed by getSubareaRunoff, and the climate and node state it finds
StepInputs ==
    { \* no infiltration, no evaporation: drainage alone
      [evap |-> 0, infil |-> 0, tStep |-> 1, rate |-> 0, month |-> 1,
       node |-> NodeDry],
      \* evaporation from both zones, part of it already used at the surface
      [evap |-> 8, infil |-> 0, tStep |-> 2, rate |-> 64, month |-> 7,
       node |-> NodeWet],
      \* infiltration while evaporation is available
      [evap |-> 0, infil |-> 48, tStep |-> 2, rate |-> 64, month |-> 1,
       node |-> NodeDry] }

\* the vectors x the ODE solver passes to getDxDt, besides the current state
TrialChoices == { <<7, 6>>, <<12, 16>> }

\* the values of x[THETA] and x[LOWERDEPTH] the ODE solver returns
ThetaValues == {0, 5, 7, 12}
DepthValues == {-1, 3, 16}

\* records of a hot start file
HotstartChoices == { <<5, 6, 7, MISSING>>, <<7, 3, -3, 40>> }

\* the context before the first step (the project is zero-filled)
NoContext ==
    [GW |-> 0, LatFlowExpr |-> NoExpr, DeepFlowExpr |-> NoExpr, A |-> AqBase,
     FracPerv |-> 0, Area |-> 0, Infil |-> 0, Tstep |-> 0, MaxEvap |-> 0,
     AvailEvap |-> 0, TotalDepth |-> 0, Hstar |-> 0, Hsw |-> 0,
     MaxUpperPerc |-> 0, MaxGWFlowPos |-> 0, MaxGWFlowNeg |-> 0,
     Hgw |-> 0, Theta |-> 0, UpperEvap |-> 0, LowerEvap |-> 0,
     UpperPerc |-> 0, LowerLoss |-> 0, GWFlow |-> 0, HydCon |-> 0]

Idle == [pc |-> "idle", j |-> 0, x |-> <<0, 0>>, tStep |-> 0, infil |-> 0,
         evals |-> 0, dxdt |-> <<0, 0>>]

NoCall5 == [calls |-> 0, vInfil |-> 0, vUpperEvap |-> 0, vLowerEvap |-> 0,
            vLowerPerc |-> 0, vGwater |-> 0]
NoCallStats == [calls |-> 0, j |-> 0, infil |-> 0, evapLoss |-> 0,
                gwFlow |-> 0, lowerLoss |-> 0, theta |-> 0, elev |-> 0,
                tStep |-> 0]
\* a line of the [GWF] section: the subcatchment ID, the keyword, the number
\* of tokens, and the expression "coef op var" the remaining tokens spell
NoLine == [subcatch |-> "", keyword |-> "", ntoks |-> 0, coef |-> 0,
           op |-> "", var |-> ""]

\* what error_setInpError returns and the token it saves: none
NoError == <<"", "">>

\* last: the operation that acted last (op) on subcatchment j; x is the
\* tuple it returned (getState) or was passed (setState); prev and t0 are the
\* op and x of the operation before it; rt counts the calls of a round trip
\* getState, setState(that tuple), getState; flow0 and maxInfil0 are newFlow
\* and maxInfilVol before the operation
NoOp == [op |-> "none", j |-> 0, x |-> <<0, 0, 0, 0>>, prev |-> "none",
         t0 |-> <<0, 0, 0, 0>>, rt |-> 0, flow0 |-> 0, maxInfil0 |-> 0,
         line |-> NoLine, err |-> NoError]

Init ==
    /\ \E c \in Configs :
          /\ Aquifer = [k \in {1} |-> c.aquifer]
          /\ Subcatch = [j \in {1} |-> c.sub]
    /\ Node = [n \in {1} |-> NodeDry]
    /\ Evap = [rate |-> 0]
    /\ NewRunoffMonth = 1
    /\ GwaterShared = NoContext
    /\ ErrorCode = 0
    /\ phase = [aq |-> {}, sub |-> {}, init |-> {}]
    /\ step = Idle
    /\ massbal = NoCall5
    /\ stats = NoCallStats
    /\ hotstart = <<0, 0, 0, 0>>
    /\ Landuse = NoLanduse
    /\ landFactor = NoLanduse
    /\ last = NoOp

\* ------------------------------------------------------------------ validation

\* the first report without the case of a field capacity equal to porosity
AquiferParamsError_above(a) ==
    \/ a.porosity       <= 0
    \/ a.fieldCapacity  >  a.porosity
    \/ a.wiltingPoint   >= a.fieldCapacity
    \/ a.conductivity   <= 0
    \/ a.conductSlope   <  0
    \/ a.tensionSlope   <  0
    \/ a.upperEvapFrac  <  0
    \/ a.lowerEvapDepth <  0
    \/ a.waterTableElev <  a.bottomElev
    \/ a.upperMoisture  >  a.porosity
    \/ a.upperMoisture  <  a.wiltingPoint

\* the condition of gwater_validateAquifer's first report
AquiferParamsError(a) ==
    \/ a.porosity       <= 0
    \/ a.fieldCapacity  >= a.porosity
    \/ a.wiltingPoint   >= a.fieldCapacity
    \/ a.conductivity   <= 0
    \/ a.conductSlope   <  0
    \/ a.tensionSlope   <  0
    \/ a.upperEvapFrac  <  0
    \/ a.lowerEvapDepth <  0
    \/ a.waterTableElev <  a.bottomElev
    \/ a.upperMoisture  >  a.porosity
    \/ a.upperMoisture  <  a.wiltingPoint

\* the condition of gwater_validateAquifer's second report
AquiferPatternError(a) ==
    a.upperEvapPat >= 0 /\ Pattern[a.upperEvapPat].type # MONTHLY_PATTERN

gwater_validateAquifer(k) ==
    /\ k \in DOMAIN Aquifer /\ k \notin phase.aq
    /\ ErrorCode' = ErrorCode
                    + (IF AquiferParamsError(Aquifer[k]) THEN 1 ELSE 0)
                    + (IF AquiferPatternError(Aquifer[k]) THEN 1 ELSE 0)
    /\ phase' = [phase EXCEPT !.aq = @ \cup {k}]
    /\ last' = [NoOp EXCEPT !.op = "validateAquifer", !.j = k]
    /\ UNCHANGED <<Landuse, landFactor>>
    /\ UNCHANGED <<Aquifer, Subcatch, Node, Evap, NewRunoffMonth, GwaterShared,
                   step, massbal, stats, hotstart>>

\* gwater_validate taking every optional field from the aquifer
ResolveMissing_always(gw, a) ==
    [gw EXCEPT
        !.bottomElev     = a.bottomElev,
        !.waterTableElev = a.waterTableElev,
        !.upperMoisture  = a.upperMoisture]

\* the groundwater object after gwater_validate resolved its missing fields
ResolveMissing(gw, a) ==
    [gw EXCEPT
        !.bottomElev     = IF @ = MISSING THEN a.bottomElev ELSE @,
        !.waterTableElev = IF @ = MISSING THEN a.waterTableElev ELSE @,
        !.upperMoisture  = IF @ = MISSING THEN a.upperMoisture ELSE @]

gwater_validate(j) ==
    /\ j \in DOMAIN Subcatch /\ j \notin phase.sub
    /\ phase.aq = DOMAIN Aquifer
    /\ LET sub == Subcatch[j]
           gw  == ResolveMissing(sub.gw, Aquifer[sub.gw.aquifer])
       IN  IF sub.groundwater
           THEN /\ Subcatch' = [Subcatch EXCEPT ![j].gw = gw]
                /\ ErrorCode' = ErrorCode
                       + (IF gw.surfElev < gw.waterTableElev THEN 1 ELSE 0)
           ELSE UNCHANGED <<Subcatch, ErrorCode>>
    /\ phase' = [phase EXCEPT !.sub = @ \cup {j}]
    /\ last' = [NoOp EXCEPT !.op = "validate", !.j = j]
    /\ UNCHANGED <<Landuse, landFactor>>
    /\ UNCHANGED <<Aquifer, Node, Evap, NewRunoffMonth, GwaterShared,
                   step, massbal, stats, hotstart>>

\* the project passed validation and no step is running
Ready ==
    /\ phase.aq = DOMAIN Aquifer /\ phase.sub = DOMAIN Subcatch
    /\ ErrorCode = 0
    /\ step.pc = "idle"

\* ------------------------------------------------------------------ state record

\* subcatch_getFracPerv(j)
subcatch_getFracPerv(j) == Subcatch[j].fracPerv

\* the groundwater object after gwater_initState
InitialState(gw, a, fracPerv) ==
    LET theta == IF gw.upperMoisture >= a.porosity THEN a.porosity - XTOL
                 ELSE gw.upperMoisture
        ld0   == gw.waterTableElev - gw.bottomElev
        ld    == IF ld0 >= gw.surfElev - gw.bottomElev
                 THEN gw.surfElev - gw.bottomElev - XTOL ELSE ld0
    IN  [gw EXCEPT !.theta = theta, !.lowerDepth = ld,
                   !.oldFlow = 0, !.newFlow = 0, !.evapLoss = 0,
                   !.maxInfilVol = Div((gw.surfElev - gw.waterTableElev) *
                                       (a.porosity - theta) * S, fracPerv)]

gwater_initState(j) ==
    /\ Ready /\ j \in DOMAIN Subcatch
    /\ LET sub == Subcatch[j]
       IN  IF sub.groundwater
           THEN Subcatch' = [Subcatch EXCEPT ![j].gw =
                    InitialState(sub.gw, Aquifer[sub.gw.aquifer],
                                 subcatch_getFracPerv(j))]
           ELSE UNCHANGED Subcatch
    /\ phase' = [phase EXCEPT !.init = @ \cup {j}]
    /\ last' = [NoOp EXCEPT !.op = "initState", !.j = j]
    /\ UNCHANGED <<Landuse, landFactor>>
    /\ UNCHANGED <<Aquifer, Node, Evap, NewRunoffMonth, GwaterShared, ErrorCode,
                   step, massbal, stats, hotstart>>

\* x[] of gwater_getState
StateTuple(gw) ==
    <<gw.theta, gw.bottomElev + gw.lowerDepth, gw.newFlow, gw.maxInfilVol>>

\* gwater_setState taking the water table elevation for the lower depth
RestoredState_noDatum(gw, x) ==
    [gw EXCEPT !.theta = x[1],
               !.lowerDepth = x[2],
               !.oldFlow = x[3],
               !.maxInfilVol = IF x[4] # MISSING THEN x[4] ELSE @]

\* gwater_setState assigning maxInfilVol whatever the tuple holds
RestoredState_always(gw, x) ==
    [gw EXCEPT !.theta = x[1],
               !.lowerDepth = x[2] - gw.bottomElev,
               !.oldFlow = x[3],
               !.maxInfilVol = x[4]]

\* the groundwater object after gwater_setState(x)
RestoredState(gw, x) ==
    [gw EXCEPT !.theta = x[1],
               !.lowerDepth = x[2] - gw.bottomElev,
               !.oldFlow = x[3],
               !.maxInfilVol = IF x[4] # MISSING THEN x[4] ELSE @]

\* gwater_getVolume counting the water of the upper zone only
gwater_getVolume_upperOnly(j) ==
    LET gw == Subcatch[j].gw
        upperDepth == gw.surfElev - gw.bottomElev - gw.lowerDepth
    IN  IF ~Subcatch[j].groundwater THEN 0
        ELSE upperDepth * gw.theta

\* gwater_getVolume(j)
gwater_getVolume(j) ==
    LET gw == Subcatch[j].gw
        a  == Aquifer[gw.aquifer]
        upperDepth == gw.surfElev - gw.bottomElev - gw.lowerDepth
    IN  IF ~Subcatch[j].groundwater THEN 0
        ELSE (upperDepth * gw.theta) + (gw.lowerDepth * a.porosity)

\* ------------------------------------------------------------------ hot start

gwater_getState(j) ==
    /\ Ready /\ j \in phase.init
    /\ Subcatch[j].groundwater
    /\ hotstart' = StateTuple(Subcatch[j].gw)
    /\ last' = [NoOp EXCEPT !.op = "getState", !.j = j,
                            !.x = StateTuple(Subcatch[j].gw),
                            !.prev = last.op, !.t0 = last.x,
                            !.rt = IF last.op = "setState" /\ last.rt = 2
                                   THEN 3 ELSE 1]
    /\ UNCHANGED <<Landuse, landFactor>>
    /\ UNCHANGED <<Aquifer, Subcatch, Node, Evap, NewRunoffMonth, GwaterShared,
                   ErrorCode, phase, step, massbal, stats>>

gwater_setState(j, x) ==
    /\ Ready /\ j \in phase.init
    /\ IF ~Subcatch[j].groundwater THEN UNCHANGED Subcatch
       ELSE Subcatch' = [Subcatch EXCEPT ![j].gw = RestoredState(@, x)]
    /\ last' = [NoOp EXCEPT !.op = "setState", !.j = j, !.x = x,
                            !.prev = last.op, !.t0 = last.x,
                            !.rt = IF last.op = "getState" /\ x = hotstart
                                   THEN 2 ELSE 0,
                            !.maxInfil0 = Subcatch[j].gw.maxInfilVol]
    /\ UNCHANGED <<Landuse, landFactor>>
    /\ UNCHANGED <<Aquifer, Node, Evap, NewRunoffMonth, GwaterShared,
                   ErrorCode, phase, step, massbal, stats, hotstart>>

\* ------------------------------------------------------------------ step driver

\* the second early return taken for a negative pervious fraction only
NoPerviousArea_strict(g) == g.FracPerv < 0

\* the three early returns of gwater_getGroundwater
NoGroundwater(sub) == ~sub.groundwater
NoPerviousArea(g) == g.FracPerv <= 0
NoTotalDepth(g) == g.TotalDepth <= 0

\* the context after the objects of subcatchment j are saved to it
ContextObjects(g, j) ==
    [g EXCEPT !.GW = j,
              !.LatFlowExpr = Subcatch[j].gwLatFlowExpr,
              !.DeepFlowExpr = Subcatch[j].gwDeepFlowExpr,
              !.A = Aquifer[Subcatch[j].gw.aquifer],
              !.FracPerv = subcatch_getFracPerv(j)]

\* the context after the rates and the total depth are saved to it; the
\* climate rate is the one the step finds
ContextRates(g, j, evap, infil, tStep, evapRate) ==
    LET area    == Subcatch[j].area
        maxEvap == (evapRate * g.FracPerv) \div S
    IN  [g EXCEPT !.Area = area,
                  !.Infil = Div(Div(infil, area), tStep),
                  !.Tstep = tStep,
                  !.MaxEvap = maxEvap,
                  !.AvailEvap = MAX(maxEvap - Div(Div(evap, area), tStep), 0),
                  !.TotalDepth = Subcatch[j].gw.surfElev
                                 - Subcatch[j].gw.bottomElev]

\* the context after the boundary heights and the limits on the fluxes are
\* saved to it; node is the state of the drainage node the step finds
ContextLimits(g, gw, tStep, node) ==
    LET vUpper   == MAX(0, (g.TotalDepth - gw.lowerDepth) *
                           (gw.theta - g.A.fieldCapacity))
        nodeFlow == Div(node.inflow + Div(node.newVolume, tStep), g.Area)
        maxNeg   == Div((g.TotalDepth - gw.lowerDepth) *
                        (g.A.porosity - gw.theta), tStep)
    IN  [g EXCEPT
            !.Hstar = IF gw.nodeElev # MISSING
                      THEN gw.nodeElev - gw.bottomElev
                      ELSE node.invertElev - gw.bottomElev,
            !.Hsw = IF gw.fixedDepth > 0
                    THEN gw.fixedDepth + node.invertElev - gw.bottomElev
                    ELSE node.newDepth + node.invertElev - gw.bottomElev,
            !.MaxUpperPerc = Div(vUpper, tStep),
            !.MaxGWFlowPos = Div(gw.lowerDepth * g.A.porosity, tStep),
            !.MaxGWFlowNeg = -MIN(maxNeg, nodeFlow)]

\* gwater_getGroundwater up to the call of the ODE solver: the context it
\* leaves, and whether it goes on (run) or returned early
BeginContext(g, j, in) ==
    LET g2 == ContextObjects(g, j)
        g3 == ContextRates(g2, j, in.evap, in.infil, in.tStep, in.rate)
        g4 == ContextLimits(g3, Subcatch[j].gw, in.tStep, in.node)
    IN  IF NoGroundwater(Subcatch[j])
        THEN [g |-> [g EXCEPT !.GW = 0], run |-> FALSE]
        ELSE IF NoPerviousArea(g2) THEN [g |-> g2, run |-> FALSE]
        ELSE IF NoTotalDepth(g3) THEN [g |-> g3, run |-> FALSE]
        ELSE [g |-> g4, run |-> TRUE]

\* gwater_getGroundwater is entered with the inputs in; it returns early or
\* calls the ODE solver
gwater_getGroundwater(j, in) ==
    /\ Ready /\ j \in phase.init
    /\ massbal.calls < MaxSteps
    /\ Node' = [Node EXCEPT ![Subcatch[j].gw.node] = in.node]
    /\ Evap' = [rate |-> in.rate]
    /\ NewRunoffMonth' = in.month
    /\ \E b \in {BeginContext(GwaterShared, j, in)} :
           /\ GwaterShared' = b.g
           /\ IF b.run
              THEN /\ step' = [Idle EXCEPT !.pc = "integrate", !.j = j,
                          !.x = <<Subcatch[j].gw.theta,
                                  Subcatch[j].gw.lowerDepth>>,
                          !.tStep = in.tStep, !.infil = b.g.Infil]
                   /\ last' = [NoOp EXCEPT !.op = "begin", !.j = j,
                                  !.flow0 = Subcatch[j].gw.newFlow]
              ELSE /\ step' = Idle
                   /\ last' = [NoOp EXCEPT !.op = "abort", !.j = j]
    /\ UNCHANGED <<Landuse, landFactor>>
    /\ UNCHANGED <<Aquifer, Subcatch, ErrorCode, phase, massbal, stats,
                   hotstart>>

\* the ODE solver calls getDxDt(t, x, dxdt) for a vector x of its choice
odesolve_getDxDt(x) ==
    /\ step.pc = "integrate" /\ step.evals < MaxEvals
    /\ \E g \in {getFluxes(GwaterShared, Subcatch[GwaterShared.GW].gw,
                             x[1], x[2])} :
           /\ GwaterShared' = g
           /\ step' = [step EXCEPT !.evals = @ + 1, !.dxdt = getDxDt(g, x)]
    /\ last' = [last EXCEPT !.op = "getDxDt"]
    /\ UNCHANGED <<Landuse, landFactor>>
    /\ UNCHANGED <<Aquifer, Subcatch, Node, Evap, NewRunoffMonth, ErrorCode,
                   phase, massbal, stats, hotstart>>

\* the clamping with the tolerance as the least lower depth
ClampState_floorTol(x, a, TotalDepth) ==
    LET th1 == MAX(x[1], a.wiltingPoint)
        th  == IF th1 >= a.porosity THEN a.porosity - XTOL ELSE th1
        ld1 == IF th1 >= a.porosity THEN TotalDepth - XTOL ELSE x[2]
        ld2 == MAX(ld1, XTOL)
        ld  == IF ld2 >= TotalDepth THEN TotalDepth - XTOL ELSE ld2
    IN  <<th, ld>>

\* "keep state variables within allowable bounds": x after the clamping
ClampState(x, a, TotalDepth) ==
    LET th1 == MAX(x[1], a.wiltingPoint)
        th  == IF th1 >= a.porosity THEN a.porosity - XTOL ELSE th1
        ld1 == IF th1 >= a.porosity THEN TotalDepth - XTOL ELSE x[2]
        ld2 == MAX(ld1, 0)
        ld  == IF ld2 >= TotalDepth THEN TotalDepth - XTOL ELSE ld2
    IN  <<th, ld>>

\* the groundwater object committed at the end of the step: gw with the state
\* x, g the context after getFluxes at x
CommitState(gw, g, x) ==
    [gw EXCEPT !.theta = x[1], !.lowerDepth = x[2],
               !.oldFlow = gw.newFlow, !.newFlow = g.GWFlow,
               !.evapLoss = g.UpperEvap + g.LowerEvap,
               !.maxInfilVol = Div((g.TotalDepth - x[2]) *
                                   (g.A.porosity - x[1]) * S, g.FracPerv)]

\* updateMassBal reporting the lateral volume of the new flow alone
updateMassBal_newFlow(g, gw, area, tStep) ==
    LET ft2sec == area * tStep
    IN  [vInfil     |-> 2 * g.Infil * ft2sec,
         vUpperEvap |-> 2 * g.UpperEvap * ft2sec,
         vLowerEvap |-> 2 * g.LowerEvap * ft2sec,
         vLowerPerc |-> 2 * g.LowerLoss * ft2sec,
         vGwater    |-> 2 * gw.newFlow * ft2sec]

\* updateMassBal: the volumes passed to massbal_updateGwaterTotals, each
\* counted in halves of a grid unit (k stands for k / (2 S^2))
updateMassBal(g, gw, area, tStep) ==
    LET ft2sec == area * tStep
    IN  [vInfil     |-> 2 * g.Infil * ft2sec,
         vUpperEvap |-> 2 * g.UpperEvap * ft2sec,
         vLowerEvap |-> 2 * g.LowerEvap * ft2sec,
         vLowerPerc |-> 2 * g.LowerLoss * ft2sec,
         vGwater    |-> (gw.oldFlow + gw.newFlow) * ft2sec]

\* odesolve_integrate returns with the vector xr; gwater_getGroundwater
\* clamps it, commits the state to the groundwater object the context points
\* to (gwtr->GW) and reports
gwater_getGroundwater_end(xr) ==
    /\ step.pc = "integrate"
    /\ \E j \in {step.j} :
       \E p \in {GwaterShared.GW} :
       \E x \in {ClampState(xr, GwaterShared.A, GwaterShared.TotalDepth)} :
       \E g \in {getFluxes(GwaterShared, Subcatch[p].gw, x[1], x[2])} :
       \E gw \in {CommitState(Subcatch[p].gw, g, x)} :
       \E v \in {updateMassBal(g, gw, g.Area, step.tStep)} :
           /\ GwaterShared' = g
           /\ Subcatch' = [Subcatch EXCEPT ![p].gw = gw]
           /\ massbal' = [calls |-> massbal.calls + 1,
                          vInfil |-> v.vInfil, vUpperEvap |-> v.vUpperEvap,
                          vLowerEvap |-> v.vLowerEvap,
                          vLowerPerc |-> v.vLowerPerc, vGwater |-> v.vGwater]
           /\ stats' = [calls |-> stats.calls + 1, j |-> j,
                        infil |-> step.infil, evapLoss |-> gw.evapLoss,
                        gwFlow |-> g.GWFlow, lowerLoss |-> g.LowerLoss,
                        theta |-> gw.theta,
                        elev |-> gw.lowerDepth + gw.bottomElev,
                        tStep |-> step.tStep]
           /\ last' = [last EXCEPT !.op = "step"]
    /\ step' = Idle
    /\ UNCHANGED <<Landuse, landFactor>>
    /\ UNCHANGED <<Aquifer, Node, Evap, NewRunoffMonth, ErrorCode, phase,
                   hotstart>>

\* ------------------------------------------------------------------ behaviours

Next ==
    \/ \E k \in DOMAIN Aquifer : gwater_validateAquifer(k)
    \/ \E j \in DOMAIN Subcatch : gwater_validate(j)
    \/ \E j \in DOMAIN Subcatch : gwater_initState(j)
    \/ \E j \in DOMAIN Subcatch, x \in HotstartChoices : gwater_setState(j, x)
    \/ \E j \in DOMAIN Subcatch, in \in StepInputs :
          gwater_getGroundwater(j, in)
    \/ \E x \in TrialChoices \cup {step.x} : odesolve_getDxDt(x)
    \/ \E th \in ThetaValues, ld \in DepthValues :
          gwater_getGroundwater_end(<<th, ld>>)

Spec == Init /\ [][Next]_vars

\* ------------------------------------------------------------------ hot start runs

\* A validated and initialised project whose subcatchment j holds the
\* configuration sub
Started(aq, sub) ==
    /\ Aquifer = [k \in {1} |-> aq]
    /\ Subcatch = [j \in {1} |-> sub]
    /\ Node = [n \in {1} |-> NodeDry]
    /\ Evap = [rate |-> 0]
    /\ NewRunoffMonth = 1
    /\ GwaterShared = NoContext
    /\ ErrorCode = 0
    /\ phase = [aq |-> {1}, sub |-> {1}, init |-> {1}]
    /\ step = Idle
    /\ massbal = NoCall5
    /\ stats = NoCallStats
    /\ hotstart = <<0, 0, 0, 0>>
    /\ Landuse = NoLanduse
    /\ landFactor = NoLanduse
    /\ last = NoOp

\* groundwater states a run reaches: moisture and depth within the bounds,
\* flows of either sign, an infiltration capacity
InitHot ==
    \E aq \in {AqBase, AqLoss}, hasGW \in BOOLEAN,
       th \in {2, 5, 11}, ld \in {0, 4}, oldF \in {0, 7}, newF \in {-3, 0, 7},
       mv \in {0, 84} :
        Started(aq,
            [SubBase EXCEPT
                !.groundwater = hasGW,
                !.gw = [ResolveMissing(GwBase, aq) EXCEPT
                            !.theta = th, !.lowerDepth = ld, !.oldFlow = oldF,
                            !.newFlow = newF, !.maxInfilVol = mv]])

\* a hot start file is saved and used: gwater_getState, and gwater_setState
\* with the saved record or with a record of another file
NextHot ==
    \/ \E j \in DOMAIN Subcatch : gwater_getState(j)
    \/ \E j \in DOMAIN Subcatch, x \in HotstartChoices \cup {hotstart} :
          gwater_setState(j, x)

SpecHot == InitHot /\ [][NextHot]_vars

\* ------------------------------------------------------------------ flux runs

\* the vectors the ODE solver passes to getDxDt in the flux runs
FluxTrials == {5, 7} \X {-2, -1, 0, 1, 3, 6, 16, 20}

\* A validated and initialised project for every choice of the lateral flow
\* coefficients, of the threshold override and of a lateral expression
InitFlux ==
    \E a1 \in {-3, 0, 14}, b1 \in {0, 1, 2}, a2 \in {0, 4}, b2 \in {0, 1},
       a3 \in {-1, 0, 1}, ne \in {MISSING, -1, 6},
       lat \in {NoExpr, <<-1, gwvHGW>>} :
        Started(AqLoss,
            [SubBase EXCEPT
                !.gwLatFlowExpr = lat,
                !.gw = InitialState(
                          ResolveMissing(
                              [GwBase EXCEPT !.a1 = a1, !.b1 = b1, !.a2 = a2,
                                             !.b2 = b2, !.a3 = a3,
                                             !.nodeElev = ne], AqLoss),
                          AqLoss, S)])

\* a step is begun and the solver evaluates the derivative
NextFlux ==
    \/ \E j \in DOMAIN Subcatch, in \in StepInputs :
          gwater_getGroundwater(j, in)
    \/ \E x \in FluxTrials : odesolve_getDxDt(x)

SpecFlux == InitFlux /\ [][NextFlux]_vars

\* ------------------------------------------------------------------ claims C1 - C7

\* the groundwater object and the aquifer of the subcatchment last acted on
LastGw == Subcatch[last.j].gw
LastAq == Aquifer[LastGw.aquifer]

\* theta and lowerDepth of gw are within the bounds of the aquifer a
WithinBounds(gw, a) ==
    /\ a.wiltingPoint <= gw.theta /\ gw.theta < a.porosity
    /\ 0 <= gw.lowerDepth /\ gw.lowerDepth < gw.surfElev - gw.bottomElev

\* C1: after every call of gwater_getGroundwater that does not return early,
\* whatever the ODE solver returned, the committed state satisfies
\* wiltingPoint <= theta < porosity and 0 <= lowerDepth < totalDepth.
C1_PostStepBounds ==
    last.op = "step" => WithinBounds(LastGw, LastAq)

\* C2: in every state reached by gwater_initState, gwater_setState and
\* gwater_getGroundwater on a project validated without error, theta and
\* lowerDepth are within the bounds.
C2_StateBounds ==
    \A j \in DOMAIN Subcatch :
        (j \in phase.init /\ Subcatch[j].groundwater /\ step.pc = "idle")
            => WithinBounds(Subcatch[j].gw, Aquifer[Subcatch[j].gw.aquifer])

\* the three conditions under which a step is skipped
Degenerate(sub) ==
    \/ ~sub.groundwater
    \/ sub.fracPerv <= 0
    \/ sub.gw.surfElev - sub.gw.bottomElev <= 0

\* C3: a call of gwater_getGroundwater for a subcatchment without groundwater
\* object, with pervious fraction <= 0 or with surfElev - bottomElev <= 0
\* returns early: it leaves the groundwater state unchanged and calls neither
\* the mass balance sink nor the statistics sink.
C3_AbortFrame ==
    [][ (last'.op \in {"begin", "abort"} /\ Degenerate(Subcatch[last'.j]))
          => /\ last'.op = "abort" /\ step'.pc = "idle"
             /\ Subcatch' = Subcatch
             /\ massbal' = massbal /\ stats' = stats ]_vars

\* a step was skipped for a subcatchment with groundwater, and it left its
\* objects in the context
C3_Witness ==
    /\ last.op = "abort" /\ Subcatch[last.j].groundwater
    /\ Subcatch[last.j].fracPerv = 0
    /\ GwaterShared.GW = last.j /\ massbal.calls = 0 /\ stats.calls = 0

\* the committed state is the exact solution of the two equations for fluxes
\* that are the same at the start (x0) and at the end of the step and leave
\* theta alone
ExactStep(gw0, g0, gw1, g1) ==
    LET f0 == getFluxes(g0, gw0, gw0.theta, gw0.lowerDepth)
    IN  /\ f0.UpperEvap = g1.UpperEvap /\ f0.LowerEvap = g1.LowerEvap
        /\ f0.UpperPerc = g1.UpperPerc /\ f0.LowerLoss = g1.LowerLoss
        /\ f0.GWFlow = g1.GWFlow
        /\ g1.Infil - g1.UpperEvap - g1.UpperPerc = 0
        /\ gw1.theta = gw0.theta
        /\ (gw1.lowerDepth - gw0.lowerDepth) * (g1.A.porosity - gw0.theta)
             = (g1.UpperPerc - g1.LowerLoss - g1.LowerEvap - g1.GWFlow)
               * g1.Tstep

\* C4: mass conservation.  For every step that does not return early, the
\* change of the stored volume (gwater_getVolume after less before) times
\* the area equals the infiltration volume less the upper evaporation,
\* lower evaporation, deep loss and lateral exchange volumes reported to the
\* mass balance sink.  Stated for the steps
\* most favourable to it: those whose committed state is the exact solution
\* (the reported volumes count in halves of a grid unit).
C4_MassConserved ==
    [][ ( /\ last'.op = "step"
          /\ ExactStep(Subcatch[last'.j].gw, GwaterShared,
                       Subcatch'[last'.j].gw, GwaterShared') )
          => 2 * GwaterShared'.Area
               * ( gwater_getVolume(last.j)' - gwater_getVolume(last'.j) )
             = massbal'.vInfil - massbal'.vUpperEvap - massbal'.vLowerEvap
               - massbal'.vLowerPerc - massbal'.vGwater ]_vars

\* the fluxes evaluated at the committed state of the subcatchment last
\* acted on
EndFluxes == getFluxes(GwaterShared, LastGw, LastGw.theta, LastGw.lowerDepth)

\* C5: for every step that does not return early, each volume passed to the
\* mass balance sink is the rate times area * tStep: the infiltration rate of
\* the step, the upper evaporation, lower evaporation and deep loss rates at
\* the committed state, and half the sum of the lateral flows committed by
\* the previous step and by this one (the volumes count in halves).
C5_ReportedVolumes ==
    last.op = "step" =>
        LET ft2sec == Subcatch[last.j].area * stats.tStep
        IN  /\ massbal.vInfil     = 2 * stats.infil * ft2sec
            /\ massbal.vUpperEvap = 2 * EndFluxes.UpperEvap * ft2sec
            /\ massbal.vLowerEvap = 2 * EndFluxes.LowerEvap * ft2sec
            /\ massbal.vLowerPerc = 2 * EndFluxes.LowerLoss * ft2sec
            /\ massbal.vGwater    = (last.flow0 + LastGw.newFlow) * ft2sec

\* a second step reported a lateral volume that averages two different
\* flows, with evaporation from both zones and deep loss going on
C5_Witness ==
    /\ last.op = "step" /\ massbal.calls = 2
    /\ last.flow0 # LastGw.newFlow /\ last.flow0 # 0
    /\ massbal.vGwater # 0
    /\ massbal.vUpperEvap > 0 /\ massbal.vLowerEvap > 0
    /\ massbal.vLowerPerc > 0

\* C6: if the infiltration rate of a step is > 0, the upper and the lower
\* evaporation rates are 0 after every flux evaluation of the step, and the
\* evapLoss it commits and the evaporation volumes it reports are 0.
C6_NoEvapWhileInfil ==
    (last.op \in {"getDxDt", "step"} /\ GwaterShared.Infil > 0)
        => /\ GwaterShared.UpperEvap = 0 /\ GwaterShared.LowerEvap = 0
           /\ last.op = "step" =>
                 /\ LastGw.evapLoss = 0
                 /\ massbal.vUpperEvap = 0 /\ massbal.vLowerEvap = 0

\* a step with infiltration was committed while evaporation was available
\* and the soil above the wilting point and within reach of the lower zone
C6_Witness ==
    /\ last.op = "step" /\ GwaterShared.Infil > 0
    /\ GwaterShared.AvailEvap > 0
    /\ LastGw.theta > LastAq.wiltingPoint
    /\ LastAq.lowerEvapDepth > GwaterShared.TotalDepth - LastGw.lowerDepth
    /\ LastGw.evapLoss = 0

C8_RoundTrip ==
    (last.op = "getState" /\ last.rt = 3) => hotstart = last.t0

\* a round trip was completed on a state with a flow and an infiltration
\* capacity other than 0, above an aquifer bottom other than 0
C8_Witness ==
    /\ last.op = "getState" /\ last.rt = 3
    /\ hotstart[3] # 0 /\ hotstart[4] # 0
    /\ LastGw.bottomElev # 0 /\ LastGw.oldFlow = hotstart[3]

\* C9: restore.  For every tuple t whose fourth component is not MISSING,
\* gwater_setState(t) followed by gwater_getState returns t.
C9_Restore ==
    (last.op = "getState" /\ last.prev = "setState" /\ last.t0[4] # MISSING)
        => hotstart = last.t0

\* C10: gwater_setState(x) assigns theta, lowerDepth (the second component
\* less the bottom elevation) and the lateral flow oldFlow from x; it sets
\* maxInfilVol to the fourth component unless that is MISSING, and then
\* leaves it unchanged; it changes nothing else, and nothing at all on a
\* subcatchment without groundwater.
C10_SetStateFrame ==
    [][ last'.op = "setState" =>
          LET j  == last'.j
              x  == last'.x
              gw == Subcatch[j].gw
          IN  IF Subcatch[j].groundwater
              THEN Subcatch' = [Subcatch EXCEPT ![j].gw =
                      [gw EXCEPT !.theta = x[1],
                                 !.lowerDepth = x[2] - gw.bottomElev,
                                 !.oldFlow = x[3],
                                 !.maxInfilVol = IF x[4] = MISSING
                                                 THEN gw.maxInfilVol
                                                 ELSE x[4]]]
              ELSE Subcatch' = Subcatch ]_vars

\* a tuple with MISSING was restored over an infiltration capacity that the
\* call kept, while the moisture and the flow took the tuple's values
C10_Witness ==
    /\ last.op = "setState" /\ last.x[4] = MISSING
    /\ Subcatch[last.j].groundwater
    /\ LastGw.maxInfilVol = last.maxInfil0 /\ LastGw.maxInfilVol = 84
    /\ LastGw.theta = last.x[1] /\ LastGw.oldFlow = last.x[3]
    /\ LastGw.oldFlow # LastGw.newFlow

\* ------------------------------------------------------------------ claims C11 - C20

\* the groundwater object of a restarted run: gwater_initState, then
\* gwater_setState with the tuple gwater_getState returns for gw
RestartedState(gw, a, fracPerv) ==
    RestoredState(InitialState(gw, a, fracPerv), StateTuple(gw))

\* what the step that is running for subcatchment j commits and reports in
\* the restarted run, when the clamped result of the ODE solver is x
RestartedStep(j, x) ==
    LET gw0 == Subcatch[j].gw
        gwR == RestartedState(gw0, Aquifer[gw0.aquifer],
                              subcatch_getFracPerv(j))
        gB  == ContextLimits(GwaterShared, gwR, step.tStep, Node[gw0.node])
        g   == getFluxes(gB, gwR, x[1], x[2])
        gw1 == CommitState(gwR, g, x)
    IN  [gw |-> gw1, v |-> updateMassBal(g, gw1, g.Area, step.tStep)]

\* C11: checkpoint/restart equivalence.  Whenever a step commits, the step of
\* a restarted run (gwater_initState, gwater_setState with the tuple of
\* gwater_getState, same inputs, same solver result) commits the same theta,
\* lowerDepth, lateral flow and maxInfilVol and reports the same five
\* volumes.
C11_RestartEquivalence ==
    [][ last'.op = "step" =>
          LET j  == step.j
              gw == Subcatch'[j].gw
              o  == RestartedStep(j, <<gw.theta, gw.lowerDepth>>)
          IN  /\ o.gw.theta = gw.theta /\ o.gw.lowerDepth = gw.lowerDepth
              /\ o.gw.newFlow = gw.newFlow
              /\ o.gw.maxInfilVol = gw.maxInfilVol
              /\ o.v.vInfil = massbal'.vInfil
              /\ o.v.vUpperEvap = massbal'.vUpperEvap
              /\ o.v.vLowerEvap = massbal'.vLowerEvap
              /\ o.v.vLowerPerc = massbal'.vLowerPerc
              /\ o.v.vGwater = massbal'.vGwater ]_vars

\* the records restored in the volume runs: moisture and water table
\* elevation within and beyond the bounds
VolumeChoices ==
    { <<th, el, 0, MISSING>> : th \in {2, 5, 11, 14}, el \in {1, 4, 15, 18} }

\* a state is restored and the stored volume queried
NextVolume ==
    \E j \in DOMAIN Subcatch, x \in VolumeChoices : gwater_setState(j, x)

SpecVolume == InitHot /\ [][NextVolume]_vars

\* the stored volume of subcatchment j by the formula of C12
VolumeFormula(j) ==
    IF ~Subcatch[j].groundwater THEN 0
    ELSE LET gw == Subcatch[j].gw
         IN  (gw.surfElev - gw.bottomElev - gw.lowerDepth) * gw.theta
               + gw.lowerDepth * Aquifer[gw.aquifer].porosity

\* C12: gwater_getVolume returns (totalDepth - lowerDepth) * theta +
\* lowerDepth * porosity, and 0 without groundwater; between two states
\* within the bounds it does not decrease when theta grows with lowerDepth
\* fixed, nor when lowerDepth grows with theta fixed.
C12_VolumeMonotone ==
    [][ \A j \in DOMAIN Subcatch :
          LET gw == Subcatch[j].gw
              a  == Aquifer[gw.aquifer]
          IN  /\ gwater_getVolume(j) = VolumeFormula(j)
              /\ gwater_getVolume(j)' = VolumeFormula(j)'
              /\ ( /\ Subcatch[j].groundwater
                   /\ WithinBounds(gw, a) /\ WithinBounds(gw, a)'
                   /\ \/ gw.lowerDepth' = gw.lowerDepth /\ gw.theta' >= gw.theta
                      \/ gw.theta' = gw.theta /\ gw.lowerDepth' >= gw.lowerDepth )
                 => gwater_getVolume(j)' >= gwater_getVolume(j) ]_vars

\* a restored state within the bounds follows one within the bounds that
\* had the same water table and less moisture, and holds more water
C12_Witness ==
    /\ last.op = "setState" /\ last.prev = "setState"
    /\ Subcatch[last.j].groundwater /\ WithinBounds(LastGw, LastAq)
    /\ last.t0[2] = last.x[2]
    /\ LastAq.wiltingPoint <= last.t0[1] /\ last.t0[1] < last.x[1]
    /\ gwater_getVolume(last.j) > LastGw.lowerDepth * LastAq.porosity
    /\ LastGw.lowerDepth > 0

\* aquifers as gwater_readAquiferParams stores them: every parameter that
\* gwater_validateAquifer tests on either side of its limit
AquiferInputs ==
    [porosity : {0, 12}, wiltingPoint : {2, 6}, fieldCapacity : {6, 12},
     conductivity : {0, 16}, conductSlope : {-1, 1}, tensionSlope : {-1, 4},
     upperEvapFrac : {-1, S \div 2}, lowerEvapDepth : {-1, 14},
     lowerLossCoeff : {0}, bottomElev : {0}, waterTableElev : {-1, 4},
     upperMoisture : {1, 5, 12, 13}, upperEvapPat : {-1, 0, 1}]

\* groundwater objects as gwater_readGroundwaterParams stores them: the
\* optional fields given or left out
GroundwaterInputs ==
    { [GwBase EXCEPT !.bottomElev = be, !.waterTableElev = wte,
                     !.upperMoisture = um] :
        be \in {MISSING, 1, -2}, wte \in {MISSING, 6, 16, 17},
        um \in {MISSING, 3} }

\* a project that was read and not yet validated
InitValidate ==
    /\ \/ \E a \in AquiferInputs :
             /\ Aquifer = [k \in {1} |-> a]
             /\ Subcatch = [j \in {1} |-> SubBase]
       \/ \E a \in {AqBase, AqLoss}, gw \in GroundwaterInputs,
             hasGW \in BOOLEAN :
             /\ Aquifer = [k \in {1} |-> a]
             /\ Subcatch = [j \in {1} |->
                              [SubBase EXCEPT !.gw = gw,
                                              !.groundwater = hasGW]]
    /\ Node = [n \in {1} |-> NodeDry]
    /\ Evap = [rate |-> 0]
    /\ NewRunoffMonth = 1
    /\ GwaterShared = NoContext
    /\ ErrorCode = 0
    /\ phase = [aq |-> {}, sub |-> {}, init |-> {}]
    /\ step = Idle
    /\ massbal = NoCall5
    /\ stats = NoCallStats
    /\ hotstart = <<0, 0, 0, 0>>
    /\ Landuse = NoLanduse
    /\ landFactor = NoLanduse
    /\ last = NoOp

\* project_validate: the aquifers, then the subcatchments
NextValidate ==
    \/ \E k \in DOMAIN Aquifer : gwater_validateAquifer(k)
    \/ \E j \in DOMAIN Subcatch : gwater_validate(j)

SpecValidate == InitValidate /\ [][NextValidate]_vars

\* C13: gwater_validateAquifer reports an error if and only if porosity <= 0,
\* fieldCapacity >= porosity, wiltingPoint >= fieldCapacity, conductivity
\* <= 0, conductSlope < 0, tensionSlope < 0, upperEvapFrac < 0,
\* lowerEvapDepth < 0, waterTableElev < bottomElev, upperMoisture > porosity,
\* upperMoisture < wiltingPoint or the assigned pattern is not a monthly
\* one; it never changes the aquifer's parameters.
C13_ValidateAquifer ==
    [][ last'.op = "validateAquifer" =>
          LET a == Aquifer[last'.j]
          IN  /\ Aquifer' = Aquifer
              /\ (ErrorCode' # ErrorCode) <=>
                    \/ a.porosity <= 0
                    \/ a.fieldCapacity >= a.porosity
                    \/ a.wiltingPoint >= a.fieldCapacity
                    \/ a.conductivity <= 0
                    \/ a.conductSlope < 0
                    \/ a.tensionSlope < 0
                    \/ a.upperEvapFrac < 0
                    \/ a.lowerEvapDepth < 0
                    \/ a.waterTableElev < a.bottomElev
                    \/ a.upperMoisture > a.porosity
                    \/ a.upperMoisture < a.wiltingPoint
                    \/ /\ a.upperEvapPat >= 0
                       /\ Pattern[a.upperEvapPat].type # MONTHLY_PATTERN ]_vars

\* an error was reported for an aquifer whose only fault is a field capacity
\* equal to the porosity, with the initial moisture at the porosity
C13_Witness ==
    /\ last.op = "validateAquifer" /\ ErrorCode = 1
    /\ Aquifer[last.j] = [AqBase EXCEPT !.fieldCapacity = 12,
                                        !.upperMoisture = 12,
                                        !.upperEvapPat = 0]

\* C14: gwater_validate replaces bottomElev, waterTableElev and
\* upperMoisture of the groundwater object by the aquifer's value exactly
\* when the field is MISSING, leaves a specified value unchanged, and
\* reports an error if and only if surfElev is below the resolved
\* waterTableElev.
C14_ValidateResolves ==
    [][ (last'.op = "validate" /\ Subcatch[last'.j].groundwater) =>
          LET gw  == Subcatch[last'.j].gw
              gw1 == Subcatch'[last'.j].gw
              a   == Aquifer[gw.aquifer]
          IN  /\ gw1.bottomElev = IF gw.bottomElev = MISSING
                                  THEN a.bottomElev ELSE gw.bottomElev
              /\ gw1.waterTableElev = IF gw.waterTableElev = MISSING
                                      THEN a.waterTableElev
                                      ELSE gw.waterTableElev
              /\ gw1.upperMoisture = IF gw.upperMoisture = MISSING
                                     THEN a.upperMoisture
                                     ELSE gw.upperMoisture
              /\ (ErrorCode' # ErrorCode)
                    <=> gw1.surfElev < gw1.waterTableElev ]_vars

\* an error was reported for a water table given above the surface, the
\* bottom given and kept, the moisture taken from the aquifer
C14_Witness ==
    /\ last.op = "validate" /\ Subcatch[last.j].groundwater
    /\ ErrorCode = 1
    /\ LastGw.waterTableElev = 17 /\ LastGw.surfElev = 16
    /\ LastGw.bottomElev = -2 /\ LastAq.bottomElev # -2
    /\ LastGw.upperMoisture = LastAq.upperMoisture

\* the cap on the deep loss rate: the lower zone's depth over the step
DeepLossCap(g) == Div(g.Hgw * S, g.Tstep)

\* C15: with a user deep flow expression the deep loss rate of every flux
\* evaluation is min(expression value / UCF(RAINFALL), lowerDepth / tStep)
\* and does not depend on lowerLossCoeff; without one it is
\* min(lowerLossCoeff * lowerDepth / totalDepth, lowerDepth / tStep).
C15_DeepLoss ==
    LET g == GwaterShared
    IN  last.op \in {"getDxDt", "step"} =>
          IF g.DeepFlowExpr # NoExpr
          THEN /\ g.LowerLoss =
                    MIN(Div(g.DeepFlowExpr[1]
                              * getVariableValue(g, g.DeepFlowExpr[2]),
                            UCF_RAINFALL),
                        DeepLossCap(g))
               /\ \A c \in {0, 3, 800} :
                     getFluxes([g EXCEPT !.A.lowerLossCoeff = c], LastGw,
                               g.Theta, g.Hgw).LowerLoss = g.LowerLoss
          ELSE g.LowerLoss =
                    MIN(Div(g.A.lowerLossCoeff * g.Hgw, g.TotalDepth),
                        DeepLossCap(g))

\* a step was committed with a deep flow expression whose value is below the
\* cap and is not what the coefficient of the aquifer would give
C15_Witness ==
    LET g == GwaterShared
    IN  /\ last.op = "step" /\ g.DeepFlowExpr # NoExpr
        /\ g.A.lowerLossCoeff > 0 /\ g.Hgw > 0
        /\ g.LowerLoss > 0 /\ g.LowerLoss < DeepLossCap(g)
        /\ g.LowerLoss # Div(g.A.lowerLossCoeff * g.Hgw, g.TotalDepth)

\* the lateral flow before the limits are applied: the built-in formula
\* plus the user's lateral expression, for the context g after a flux
\* evaluation
CombinedFlow(g, gw) ==
    getGWFlow(g, gw, g.Hgw)
      + (IF g.LatFlowExpr # NoExpr
         THEN Div(mathexpr_eval(g.LatFlowExpr, g), UCF_GWFLOW) ELSE 0)

\* the limits of C16 for a step of tStep from the state of gw
FlowCeiling(gw, a, tStep) == Div(gw.lowerDepth * a.porosity, tStep)
FlowFloor(gw, a, tStep, node, area) ==
    -MIN(Div((gw.surfElev - gw.bottomElev - gw.lowerDepth)
               * (a.porosity - gw.theta), tStep),
         Div(node.inflow + Div(node.newVolume, tStep), area))

\* C16: after every flux evaluation the lateral flow lies between the floor
\* and the ceiling taken from the state before the integration: a
\* non-negative combined result does not exceed the ceiling, a negative one
\* does not fall below the floor and stays non-positive.
C16_LateralLimits ==
    [][ last'.op \in {"getDxDt", "step"} =>
          LET j    == step.j
              gw   == Subcatch[j].gw
              a    == Aquifer[gw.aquifer]
              hi   == FlowCeiling(gw, a, step.tStep)
              lo   == FlowFloor(gw, a, step.tStep, Node[gw.node],
                                Subcatch[j].area)
              q    == CombinedFlow(GwaterShared', gw)
              flow == GwaterShared'.GWFlow
          IN  /\ lo <= flow /\ flow <= hi
              /\ q >= 0 => flow <= hi
              /\ q < 0 => (lo <= flow /\ flow <= 0) ]_vars

\* ------------------------------------------------------------------ input

\* GWVarWords
GWVarWords ==
    <<"HGW", "HSW", "HCB", "HGS", "KS", "K", "THETA", "PHI", "FI", "FU", "A">>

\* getVariableIndex(s): the position of s in GWVarWords, from 0, or -1
getVariableIndex(s) ==
    IF \E k \in DOMAIN GWVarWords : GWVarWords[k] = s
    THEN (CHOOSE k \in DOMAIN GWVarWords : GWVarWords[k] = s) - 1
    ELSE -1

\* mathexpr_create for the expression of a line: the parsed expression, or
\* NULL for an operator it cannot parse or a name getVariableIndex rejects
mathexpr_create(line) ==
    IF line.op = "*" /\ getVariableIndex(line.var) >= 0
    THEN <<line.coef, getVariableIndex(line.var)>>
    ELSE NoExpr

\* the pointer left in a field whose expression mathexpr_delete has freed;
\* what an evaluation through it yields is undefined
Freed == <<0, gwvMAX>>

\* mathexpr_delete(expr) with the field not reassigned
mathexpr_delete(expr) == IF expr = NoExpr THEN NoExpr ELSE Freed

\* project_findObject(type, id): the index of the object named id (the
\* subcatchment S1, the aquifer A1, the node N1, the time patterns P0 and P1)
project_findObject(id) ==
    IF id \in {"S1", "A1", "N1"} THEN 1
    ELSE IF id = "P0" THEN 0
    ELSE IF id = "P1" THEN 1
    ELSE -1

\* match(tok, keyword)
match(tok, keyword) ==
    \/ keyword = "LAT" /\ tok \in {"LAT", "LATERAL"}
    \/ keyword = "DEEP" /\ tok \in {"DEEP"}

\* the lines read: too few tokens, unknown subcatchment, unknown keyword,
\* malformed expression, unknown variable, well formed expressions
InputLines ==
    [subcatch : {"S1", "S9"}, keyword : {"LATERAL", "DEEP", "UPPER"},
     ntoks : {2, 5}, coef : {-1, 2}, op : {"*", ")"},
     var : {"HGW", "THETA", "HGX"}]

\* gwater_readFlowExpression(tok, ntoks)
gwater_readFlowExpression(line) ==
    /\ phase.aq = {} /\ phase.sub = {} /\ step.pc = "idle"
    /\ LET j    == project_findObject(line.subcatch)
           k    == IF match(line.keyword, "LAT") THEN 1
                   ELSE IF match(line.keyword, "DEEP") THEN 2 ELSE 0
           expr == mathexpr_create(line)
           ret(e) == [NoOp EXCEPT !.op = "readFlowExpression", !.j = j,
                                  !.line = line, !.err = e]
       IN  IF line.ntoks < 3
           THEN /\ last' = ret(<<"ERR_ITEMS", "">>)
                /\ UNCHANGED Subcatch
           ELSE IF j < 0
           THEN /\ last' = ret(<<"ERR_NAME", line.subcatch>>)
                /\ UNCHANGED Subcatch
           ELSE IF k = 0
           THEN /\ last' = ret(<<"ERR_KEYWORD", line.keyword>>)
                /\ UNCHANGED Subcatch
           ELSE IF expr = NoExpr
           THEN /\ last' = ret(<<"ERR_TREATMENT_EXPR", "">>)
                /\ Subcatch' =
                     IF k = 1
                     THEN [Subcatch EXCEPT
                             ![j].gwLatFlowExpr = mathexpr_delete(@)]
                     ELSE [Subcatch EXCEPT
                             ![j].gwDeepFlowExpr = mathexpr_delete(@)]
           ELSE /\ last' = ret(NoError)
                /\ Subcatch' =
                     IF k = 1
                     THEN [Subcatch EXCEPT ![j].gwLatFlowExpr = expr]
                     ELSE [Subcatch EXCEPT ![j].gwDeepFlowExpr = expr]
    /\ UNCHANGED <<Landuse, landFactor>>
    /\ UNCHANGED <<Aquifer, Node, Evap, NewRunoffMonth, GwaterShared,
                   ErrorCode, phase, step, massbal, stats, hotstart>>

\* gwater_deleteFlowExpression(j), called when the project is closed: the
\* expressions are deleted, the fields keep their pointers
gwater_deleteFlowExpression(j) ==
    /\ step.pc = "idle"
    /\ Subcatch' = [Subcatch EXCEPT
                      ![j].gwLatFlowExpr = mathexpr_delete(@),
                      ![j].gwDeepFlowExpr = mathexpr_delete(@)]
    /\ step' = [Idle EXCEPT !.pc = "closed"]
    /\ last' = [NoOp EXCEPT !.op = "deleteFlowExpression", !.j = j]
    /\ UNCHANGED <<Landuse, landFactor>>
    /\ UNCHANGED <<Aquifer, Node, Evap, NewRunoffMonth, GwaterShared,
                   ErrorCode, phase, massbal, stats, hotstart>>

\* the [GWF] section of the input file is read, then the project is closed
NextInput ==
    \/ \E line \in InputLines : gwater_readFlowExpression(line)
    \/ \E j \in DOMAIN Subcatch : gwater_deleteFlowExpression(j)

SpecInput == Init /\ [][NextInput]_vars

\* the expression of the line reaches the expression compiler
Compiled(line) ==
    /\ line.ntoks >= 3 /\ project_findObject(line.subcatch) >= 0
    /\ match(line.keyword, "LAT") \/ match(line.keyword, "DEEP")

\* the tokens of the line the expression compiler fails on
OffendingTokens(line) ==
    (IF line.op # "*" THEN {line.op} ELSE {})
      \cup (IF getVariableIndex(line.var) < 0 THEN {line.var} ELSE {})

\* C17: when the expression compiler fails on the expression of a line
\* (malformed formula or unrecognized variable name),
\* gwater_readFlowExpression returns an input error, and the error names the
\* offending token.
C17_ExprErrorToken ==
    ( /\ last.op = "readFlowExpression" /\ Compiled(last.line)
      /\ OffendingTokens(last.line) # {} )
        => /\ last.err[1] # ""
           /\ last.err[2] \in OffendingTokens(last.line)

\* ------------------------------------------------------------------ shared context

\* a validated and initialised project of two subcatchments on one aquifer
\* and one node: the first adds the user expression 4 * K to its lateral flow
\* and starts below the field capacity, the second starts above it
InitContext ==
    /\ Aquifer = [k \in {1} |-> AqBase]
    /\ Subcatch = [j \in {1, 2} |->
          LET sub == IF j = 1
                     THEN [SubBase EXCEPT !.gwLatFlowExpr = <<4, gwvK>>]
                     ELSE [SubBase EXCEPT !.gw.upperMoisture = 8]
          IN  [sub EXCEPT !.gw = InitialState(ResolveMissing(@, AqBase),
                                              AqBase, sub.fracPerv)]]
    /\ Node = [n \in {1} |-> NodeDry]
    /\ Evap = [rate |-> 0]
    /\ NewRunoffMonth = 1
    /\ GwaterShared = NoContext
    /\ ErrorCode = 0
    /\ phase = [aq |-> {1}, sub |-> {1, 2}, init |-> {1, 2}]
    /\ step = Idle
    /\ massbal = NoCall5
    /\ stats = NoCallStats
    /\ hotstart = <<0, 0, 0, 0>>
    /\ Landuse = NoLanduse
    /\ landFactor = NoLanduse
    /\ last = NoOp

\* steps for either subcatchment, one after the other
NextContext ==
    \/ \E j \in DOMAIN Subcatch, in \in StepInputs :
          gwater_getGroundwater(j, in)
    \/ \E x \in TrialChoices \cup {step.x} : odesolve_getDxDt(x)
    \/ \E th \in ThetaValues, ld \in DepthValues :
          gwater_getGroundwater_end(<<th, ld>>)

SpecContext == InitContext /\ [][NextContext]_vars

\* getUpperPerc(theta, upperDepth) saves the conductivity to the context
SavesHydCon(g, theta, upperDepth) ==
    ~(upperDepth <= 0 \/ theta <= g.A.fieldCapacity)

\* the end of the step for subcatchment j, from getFluxes on: what is
\* committed and reported when the context before it is g and the clamped
\* state is x
StepOutcome(g0, j, x) ==
    LET g  == getFluxes(g0, Subcatch[j].gw, x[1], x[2])
        gw == CommitState(Subcatch[j].gw, g, x)
    IN  [gw |-> gw, v |-> updateMassBal(g, gw, g.Area, step.tStep)]

\* C18: the state committed and the volumes reported by a step for
\* subcatchment j do not depend on a value an earlier step left in the shared
\* context: when no flux evaluation of the step has saved the conductivity
\* HydCon, the step commits and reports what it does from a context whose
\* HydCon is that of a project no step has run in.
C18_ContextRebuilt ==
    [][ ( /\ last'.op = "step" /\ step.evals = 1
          /\ ~SavesHydCon(GwaterShared, GwaterShared.Theta,
                          GwaterShared.TotalDepth - GwaterShared.Hgw) )
         => LET j == step.j
                x == <<Subcatch'[j].gw.theta, Subcatch'[j].gw.lowerDepth>>
                o == StepOutcome([GwaterShared EXCEPT
                                    !.HydCon = NoContext.HydCon], j, x)
            IN  /\ Subcatch'[j].gw = o.gw
                /\ massbal'.vInfil = o.v.vInfil
                /\ massbal'.vUpperEvap = o.v.vUpperEvap
                /\ massbal'.vLowerEvap = o.v.vLowerEvap
                /\ massbal'.vLowerPerc = o.v.vLowerPerc
                /\ massbal'.vGwater = o.v.vGwater ]_vars

\* ------------------------------------------------------------------ interleaved steps

\* a validated and initialised project of two subcatchments on one aquifer
\* and one node, without user expressions
InitConcurrent ==
    /\ Aquifer = [k \in {1} |-> AqBase]
    /\ Subcatch = [j \in {1, 2} |->
          LET sub == IF j = 1 THEN SubBase
                     ELSE [SubBase EXCEPT !.gw.upperMoisture = 8,
                                          !.gw.a1 = 4, !.gw.b1 = 1,
                                          !.gw.waterTableElev = 8]
          IN  [sub EXCEPT !.gw = InitialState(ResolveMissing(@, AqBase),
                                              AqBase, sub.fracPerv)]]
    /\ Node = [n \in {1} |-> NodeDry]
    /\ Evap = [rate |-> 0]
    /\ NewRunoffMonth = 1
    /\ GwaterShared = NoContext
    /\ ErrorCode = 0
    /\ phase = [aq |-> {1}, sub |-> {1, 2}, init |-> {1, 2}]
    /\ step = Idle
    /\ massbal = NoCall5
    /\ stats = NoCallStats
    /\ hotstart = <<0, 0, 0, 0>>
    /\ Landuse = NoLanduse
    /\ landFactor = NoLanduse
    /\ last = NoOp

\* the inputs of the step in progress, those every step of the same time
\* step is called with
CurrentInputs ==
    CHOOSE in \in StepInputs :
        /\ in.node = Node[Subcatch[step.j].gw.node]
        /\ in.rate = Evap.rate /\ in.month = NewRunoffMonth
        /\ in.tStep = step.tStep

\* while the step for subcatchment step.j is between two of its calls,
\* another thread runs gwater_getGroundwater for subcatchment j2 from its
\* entry to its return: the solver evaluates getDxDt at the current state
\* and returns xr
gwater_getGroundwater_other(j2, xr) ==
    /\ step.pc = "integrate" /\ j2 \in phase.init /\ j2 # step.j
    /\ massbal.calls < MaxSteps
    /\ \E b \in {BeginContext(GwaterShared, j2, CurrentInputs)} :
         IF ~b.run
         THEN /\ GwaterShared' = b.g
              /\ UNCHANGED <<Subcatch, massbal, stats>>
         ELSE
           \E p \in {b.g.GW} :
           \E g1 \in {getFluxes(b.g, Subcatch[p].gw, Subcatch[p].gw.theta,
                                Subcatch[p].gw.lowerDepth)} :
           \E x \in {ClampState(xr, g1.A, g1.TotalDepth)} :
           \E g \in {getFluxes(g1, Subcatch[p].gw, x[1], x[2])} :
           \E gw \in {CommitState(Subcatch[p].gw, g, x)} :
           \E v \in {updateMassBal(g, gw, g.Area, step.tStep)} :
               /\ GwaterShared' = g
               /\ Subcatch' = [Subcatch EXCEPT ![p].gw = gw]
               /\ massbal' = [calls |-> massbal.calls + 1,
                              vInfil |-> v.vInfil,
                              vUpperEvap |-> v.vUpperEvap,
                              vLowerEvap |-> v.vLowerEvap,
                              vLowerPerc |-> v.vLowerPerc,
                              vGwater |-> v.vGwater]
               /\ stats' = [calls |-> stats.calls + 1, j |-> j2,
                            infil |-> b.g.Infil, evapLoss |-> gw.evapLoss,
                            gwFlow |-> g.GWFlow, lowerLoss |-> g.LowerLoss,
                            theta |-> gw.theta,
                            elev |-> gw.lowerDepth + gw.bottomElev,
                            tStep |-> step.tStep]
    /\ last' = [last EXCEPT !.op = "other"]
    /\ UNCHANGED <<Landuse, landFactor>>
    /\ UNCHANGED <<Aquifer, Node, Evap, NewRunoffMonth, ErrorCode, phase,
                   step, hotstart>>

\* the steps of one time step for the two subcatchments, interleaved
NextConcurrent ==
    \/ \E j \in DOMAIN Subcatch, in \in StepInputs :
          gwater_getGroundwater(j, in)
    \/ \E x \in TrialChoices \cup {step.x} : odesolve_getDxDt(x)
    \/ \E th \in ThetaValues, ld \in DepthValues :
          gwater_getGroundwater_end(<<th, ld>>)
    \/ \E j2 \in DOMAIN Subcatch, th \in ThetaValues, ld \in DepthValues :
          gwater_getGroundwater_other(j2, <<th, ld>>)

SpecConcurrent == InitConcurrent /\ [][NextConcurrent]_vars

\* what the step in progress commits and reports when it runs alone and the
\* solver returns xr
SerialOutcome(xr) ==
    LET j == step.j
        b == BeginContext(GwaterShared, j, CurrentInputs)
    IN  StepOutcome(b.g, j, ClampState(xr, b.g.A, b.g.TotalDepth))

\* C19: a step for subcatchment j whose execution is interleaved with a step
\* for another subcatchment commits the state and reports the volumes it
\* does when the two run one after the other: for some result of the solver,
\* what it commits to j and reports is what it commits and reports alone, and
\* it leaves the other subcatchment as it is.
C19_InterleavedSteps ==
    [][ last'.op = "step"
         => \E xr \in ThetaValues \X DepthValues :
               LET o == SerialOutcome(xr)
               IN  /\ Subcatch' = [Subcatch EXCEPT ![step.j].gw = o.gw]
                   /\ massbal'.vInfil = o.v.vInfil
                   /\ massbal'.vUpperEvap = o.v.vUpperEvap
                   /\ massbal'.vLowerEvap = o.v.vLowerEvap
                   /\ massbal'.vLowerPerc = o.v.vLowerPerc
                   /\ massbal'.vGwater = o.v.vGwater ]_vars

\* ------------------------------------------------------------------ surface water term

\* a * h^b in user units, or a when b = 0
PowerLaw(a, h, b) == IF b = 0 THEN a ELSE a * Pow(h * UCF_LENGTH, b)

\* C20: in a flux evaluation with the lower depth above Hstar, the surface
\* water term of the built-in lateral formula is zero whenever Hsw <= Hstar,
\* for every a2 and b2 (b2 = 0 included): the flow is the one found with
\* a2 = 0; when Hsw > Hstar the term is a2 * (Hsw - Hstar)^b2, or a2 when
\* b2 = 0: the flow is the one found with that value as a constant term.
C20_SurfaceWaterTerm ==
    (last.op = "getDxDt" /\ GwaterShared.Hgw > GwaterShared.Hstar)
        => LET g  == GwaterShared
               gw == LastGw
               t2 == IF g.Hsw <= g.Hstar THEN 0
                     ELSE PowerLaw(gw.a2, g.Hsw - g.Hstar, gw.b2)
           IN  getGWFlow(g, gw, g.Hgw)
                 = getGWFlow(g, [gw EXCEPT !.a2 = t2, !.b2 = 0], g.Hgw)

\* ------------------------------------------------------------------ claims C21 - C30

\* the terms of the built-in lateral formula for a lower depth above Hstar,
\* and their total in internal units, before any clamping
GroundwaterTerm(g, gw, lowerDepth) == PowerLaw(gw.a1, lowerDepth - g.Hstar, gw.b1)
SurfaceWaterTerm(g, gw) ==
    IF gw.b2 = 0 THEN gw.a2
    ELSE IF g.Hsw > g.Hstar THEN PowerLaw(gw.a2, g.Hsw - g.Hstar, gw.b2)
    ELSE 0
InteractionTerm(g, gw, lowerDepth) ==
    gw.a3 * lowerDepth * g.Hsw * UCF_LENGTH * UCF_LENGTH

\* the limits applied to a combined lateral flow q
LimitedFlow(g, q) ==
    IF q >= 0 THEN MIN(q, g.MaxGWFlowPos) ELSE MAX(q, g.MaxGWFlowNeg)

\* C21: in a flux evaluation with the lower depth above Hstar, getGWFlow
\* never returns a negative value when a3 # 0 (a negative total is returned
\* as 0); with a3 = 0 it returns (t1 - t2) / UCF(GWFLOW) as it is, negative
\* or not; the user's lateral expression is added after that clamping, so
\* the lateral flow is the limited sum of the two.
C21_ClampWithInteraction ==
    (last.op = "getDxDt" /\ GwaterShared.Hgw > GwaterShared.Hstar)
        => LET g  == GwaterShared
               gw == LastGw
               q  == getGWFlow(g, gw, g.Hgw)
               t1 == GroundwaterTerm(g, gw, g.Hgw)
               t2 == SurfaceWaterTerm(g, gw)
               t3 == InteractionTerm(g, gw, g.Hgw)
               e  == IF g.LatFlowExpr # NoExpr
                     THEN Div(mathexpr_eval(g.LatFlowExpr, g), UCF_GWFLOW)
                     ELSE 0
           IN  /\ gw.a3 # 0 => q = MAX(Div(t1 - t2 + t3, UCF_GWFLOW), 0)
               /\ gw.a3 = 0 => q = Div(t1 - t2, UCF_GWFLOW)
               /\ g.GWFlow = LimitedFlow(g, q + e)

\* a negative flow is returned with a3 = 0 and becomes the lateral flow
C21_Witness ==
    /\ last.op = "getDxDt" /\ GwaterShared.Hgw > GwaterShared.Hstar
    /\ LastGw.a3 = 0 /\ GwaterShared.LatFlowExpr = NoExpr
    /\ getGWFlow(GwaterShared, LastGw, GwaterShared.Hgw) < 0
    /\ GwaterShared.GWFlow < 0

\* the deep loss before its limit is applied, for the context g after a flux
\* evaluation: the user's deep expression, or the coefficient formula
DeepLoss(g) ==
    IF g.DeepFlowExpr # NoExpr
    THEN Div(mathexpr_eval(g.DeepFlowExpr, g), UCF_RAINFALL)
    ELSE Div(g.A.lowerLossCoeff * g.Hgw, g.TotalDepth)

\* the limits on percolation and deep loss a step of tStep takes from the
\* state of gw before the integration
PercCeiling(gw, a, tStep) ==
    Div(MAX(0, (gw.surfElev - gw.bottomElev - gw.lowerDepth)
                 * (gw.theta - a.fieldCapacity)), tStep)
LossCeiling(gw, tStep) == Div(gw.lowerDepth * S, tStep)

\* C22: within one step the limit applied to each flux is the same in every
\* derivative evaluation and in the end-of-step evaluation: percolation,
\* deep loss and lateral flow are limited by ceilings and a floor taken from
\* the state before the integration, whatever theta and lowerDepth the
\* evaluation is made at.  Stated for steps that start from a lower depth
\* that is not negative.
C22_LimitsOncePerStep ==
    [][ ( /\ last'.op \in {"getDxDt", "step"}
          /\ Subcatch[step.j].gw.lowerDepth >= 0 ) =>
          LET j  == step.j
              gw == Subcatch[j].gw
              a  == Aquifer[gw.aquifer]
              g  == GwaterShared'
              hi == FlowCeiling(gw, a, step.tStep)
              lo == FlowFloor(gw, a, step.tStep, Node[gw.node],
                              Subcatch[j].area)
              q  == CombinedFlow(g, gw)
          IN  /\ g.UpperPerc
                   = MIN(getUpperPerc(g, g.Theta, g.TotalDepth - g.Hgw)[1],
                         PercCeiling(gw, a, step.tStep))
              /\ g.LowerLoss = MIN(DeepLoss(g), LossCeiling(gw, step.tStep))
              /\ g.GWFlow = IF q >= 0 THEN MIN(q, hi) ELSE MAX(q, lo) ]_vars

\* ------------------------------------------------------------------ percolation runs

\* A validated and initialised project for aquifers of low and high
\* conductivity, with and without the conductivity slope, started below and
\* above the field capacity
InitPerc ==
    \E cond \in {16, 4096}, cs \in {0, 1}, um \in {5, 7} :
        LET aq == [AqBase EXCEPT !.conductivity = cond, !.conductSlope = cs,
                                 !.upperMoisture = um]
        IN  Started(aq, [SubBase EXCEPT
                           !.gw = InitialState(ResolveMissing(GwBase, aq),
                                               aq, S)])

\* the vectors the ODE solver passes to getDxDt in the percolation runs
PercTrials == {5, 7} \X {0, 6, 16, 20}

\* one step: begun, derivative evaluations, the end
NextPerc ==
    \/ \E j \in DOMAIN Subcatch, in \in StepInputs :
          gwater_getGroundwater(j, in)
    \/ \E x \in PercTrials : odesolve_getDxDt(x)
    \/ \E th \in ThetaValues, ld \in DepthValues :
          gwater_getGroundwater_end(<<th, ld>>)

SpecPerc == InitPerc /\ [][NextPerc]_vars

\* C23: after every flux evaluation 0 <= UpperPerc <= MaxUpperPerc, where
\* MaxUpperPerc = max(0, (totalDepth - lowerDepth0) * (theta0 - fieldCapacity))
\* / tStep from the state before the integration, and UpperPerc = 0 whenever
\* the upper zone depth of the evaluation is <= 0 or its theta is
\* <= fieldCapacity.
C23_PercolationBounds ==
    [][ last'.op \in {"getDxDt", "step"} =>
          LET gw == Subcatch[step.j].gw
              a  == Aquifer[gw.aquifer]
              g  == GwaterShared'
          IN  /\ g.MaxUpperPerc = PercCeiling(gw, a, step.tStep)
              /\ 0 <= g.UpperPerc /\ g.UpperPerc <= g.MaxUpperPerc
              /\ (g.TotalDepth - g.Hgw <= 0 \/ g.Theta <= a.fieldCapacity)
                    => g.UpperPerc = 0 ]_vars

\* an evaluation whose percolation rate is positive and held at the ceiling
C23_Witness ==
    /\ last.op \in {"getDxDt", "step"}
    /\ GwaterShared.UpperPerc > 0
    /\ GwaterShared.UpperPerc = GwaterShared.MaxUpperPerc
    /\ getUpperPerc(GwaterShared, GwaterShared.Theta,
                    GwaterShared.TotalDepth - GwaterShared.Hgw)[1]
         > GwaterShared.MaxUpperPerc

\* ------------------------------------------------------------------ expression runs

\* A validated and initialised project with and without user expressions of
\* the size of the built-in fluxes: KS and -KS added to the lateral flow, KS
\* as the deep loss
InitExpr ==
    \E lat \in {NoExpr, <<1, gwvKS>>, <<-1, gwvKS>>},
       deep \in {NoExpr, <<1, gwvKS>>},
       a1 \in {0, 14}, ne \in {MISSING, 6} :
        Started(AqLoss,
            [SubBase EXCEPT
                !.gwLatFlowExpr = lat, !.gwDeepFlowExpr = deep,
                !.gw = InitialState(
                          ResolveMissing(
                              [GwBase EXCEPT !.a1 = a1, !.nodeElev = ne],
                              AqLoss),
                          AqLoss, S)])

SpecExpr == InitExpr /\ [][NextFlux]_vars

\* the value of the user's lateral expression in internal units, for the
\* context g after a flux evaluation
LateralExpression(g) == Div(mathexpr_eval(g.LatFlowExpr, g), UCF_GWFLOW)

\* C24: a user lateral expression is added to the built-in lateral formula:
\* the lateral flow is the limited sum getGWFlow(lowerDepth) + expression
\* value / UCF(GWFLOW), and with lowerDepth <= Hstar it is the limited
\* expression value alone; a user deep expression takes the place of the
\* built-in deep loss formula.
C24_ExpressionAdded ==
    last.op \in {"getDxDt", "step"} =>
        LET g == GwaterShared
        IN  /\ g.LatFlowExpr # NoExpr =>
                 /\ g.GWFlow = LimitedFlow(g, getGWFlow(g, LastGw, g.Hgw)
                                                + LateralExpression(g))
                 /\ g.Hgw <= g.Hstar =>
                        g.GWFlow = LimitedFlow(g, LateralExpression(g))
            /\ g.DeepFlowExpr # NoExpr =>
                 g.LowerLoss = MIN(Div(mathexpr_eval(g.DeepFlowExpr, g),
                                       UCF_RAINFALL),
                                   Div(g.Hgw * S, g.Tstep))

\* an evaluation above Hstar where the built-in formula and the lateral
\* expression both contribute, and the deep expression differs from the
\* coefficient formula
C24_Witness ==
    /\ last.op \in {"getDxDt", "step"}
    /\ GwaterShared.LatFlowExpr # NoExpr /\ GwaterShared.DeepFlowExpr # NoExpr
    /\ GwaterShared.Hgw > GwaterShared.Hstar
    /\ getGWFlow(GwaterShared, LastGw, GwaterShared.Hgw) > 0
    /\ LateralExpression(GwaterShared) # 0
    /\ GwaterShared.GWFlow
         # LimitedFlow(GwaterShared, LateralExpression(GwaterShared))
    /\ GwaterShared.LowerLoss
         # MIN(Div(GwaterShared.A.lowerLossCoeff * GwaterShared.Hgw,
                   GwaterShared.TotalDepth),
               Div(GwaterShared.Hgw * S, GwaterShared.Tstep))

\* the expression references of subcatchment j in the project sub: each is
\* empty or an expression that has not been deleted
LiveExpressions(sub, j) ==
    sub[j].gwLatFlowExpr # Freed /\ sub[j].gwDeepFlowExpr # Freed

\* C25: after every gwater_readFlowExpression call, one that fails to
\* compile a replacement for an existing expression included, the lateral
\* and deep expression references of every subcatchment are empty or live,
\* and gwater_deleteFlowExpression is never applied to a reference whose
\* expression has been deleted already.
C25_LiveExpressions ==
    [][ /\ last'.op = "readFlowExpression"
            => \A j \in DOMAIN Subcatch : LiveExpressions(Subcatch', j)
        /\ last'.op = "deleteFlowExpression"
            => LiveExpressions(Subcatch, last'.j) ]_vars

\* ------------------------------------------------------------------ evaporation runs

\* A validated and initialised project for aquifers that pass
\* gwater_validateAquifer, with upper evaporation fractions of 0.5, 1 and
\* 1.5, with and without the monthly pattern and the lower evaporation depth
InitEvap ==
    \E f \in {S \div 2, S, (3 * S) \div 2}, pat \in {-1, 0}, led \in {0, 14} :
        LET aq == [AqBase EXCEPT !.upperEvapFrac = f, !.upperEvapPat = pat,
                                 !.lowerEvapDepth = led]
        IN  /\ ~AquiferParamsError(aq) /\ ~AquiferPatternError(aq)
            /\ Started(aq, [SubBase EXCEPT
                              !.gw = InitialState(ResolveMissing(GwBase, aq),
                                                  aq, S)])

SpecEvap == InitEvap /\ [][NextFlux]_vars

\* C26: for every aquifer that passes gwater_validateAquifer and every
\* maximum evaporation rate >= 0, every flux evaluation leaves UpperEvap >= 0
\* and LowerEvap >= 0.
C26_EvapNotNegative ==
    (last.op = "getDxDt" /\ Evap.rate >= 0)
        => GwaterShared.UpperEvap >= 0 /\ GwaterShared.LowerEvap >= 0

\* C27: gwater_initState never divides by zero: for every subcatchment with
\* groundwater, one whose pervious fraction is zero included, the initial
\* maxInfilVol is a well-defined value >= 0.
C27_InitialCapacityDefined ==
    (last.op = "initState" /\ Subcatch[last.j].groundwater)
        => /\ LastGw.maxInfilVol \notin {INF, -INF, NAN}
           /\ LastGw.maxInfilVol >= 0

\* the vectors the ODE solver may have returned when the step commits the
\* state of gw: those the clamping takes to it
IntegratedStates(gw, g) ==
    { xr \in ThetaValues \X DepthValues :
        ClampState(xr, g.A, g.TotalDepth) = <<gw.theta, gw.lowerDepth>> }

\* C28 as stated: the end-of-step clamping changes lowerDepth only when the
\* integrated lowerDepth is outside [0, totalDepth): an integrated
\* lowerDepth within it is committed unchanged, whatever the integrated
\* theta is.
C28_DepthKept ==
    [][ last'.op = "step" =>
          \A xr \in IntegratedStates(Subcatch'[step.j].gw, GwaterShared) :
              (0 <= xr[2] /\ xr[2] < GwaterShared.TotalDepth)
                 => Subcatch'[step.j].gw.lowerDepth = xr[2] ]_vars

\* C28 amended: an integrated lowerDepth within [0, totalDepth) is committed
\* unchanged when the integrated theta is below the porosity.
C28_DepthKeptBelowPorosity ==
    [][ last'.op = "step" =>
          \A xr \in IntegratedStates(Subcatch'[step.j].gw, GwaterShared) :
              ( /\ 0 <= xr[2] /\ xr[2] < GwaterShared.TotalDepth
                /\ xr[1] < GwaterShared.A.porosity )
                 => Subcatch'[step.j].gw.lowerDepth = xr[2] ]_vars

\* a step has committed a lower depth within the bounds as the solver
\* returned it, with a theta the clamping raised to the wilting point
C28_Witness ==
    /\ last.op = "step"
    /\ LastGw.theta = LastAq.wiltingPoint
    /\ LastGw.lowerDepth \in DepthValues
    /\ 0 < LastGw.lowerDepth
    /\ LastGw.lowerDepth < GwaterShared.TotalDepth - XTOL

\* ------------------------------------------------------------------ parameter lines

\* a token getDouble cannot read
BadNumber == "1.2.3"

\* getDouble(tok, &x): the number a token is read as
getDouble(tok) == IF tok = "6" THEN 6 ELSE NAN

\* a line of the [AQUIFERS] section: the ID, the number of tokens, the index
\* of a token that is not a number (0: none), the porosity and the initial
\* moisture, the pattern name; the other numbers are those of AqBase in user
\* units
AquiferLines ==
    [id : {"A1", "A9"}, ntoks : {12, 13, 14}, bad : {0, 5},
     porosity : {12, 20}, pattern : {"P0", "PX"}]

\* a line of the [GROUNDWATER] section: subcatchment, aquifer and node
\* names, the number of tokens, the index of a token that is not a number,
\* a1, and the optional water table token ("*" or a number)
GroundwaterLines ==
    [subcatch : {"S1", "S9"}, aquifer : {"A1", "A9"}, node : {"N1", "N9"},
     ntoks : {2, 10, 15}, bad : {0, 4, 12}, a1 : {0, 14},
     waterTable : {"*", "6"}]

\* an aquifer record of the project before its line is read
AqZero ==
    [ID |-> "", porosity |-> 0, wiltingPoint |-> 0, fieldCapacity |-> 0,
     conductivity |-> 0, conductSlope |-> 0, tensionSlope |-> 0,
     upperEvapFrac |-> 0, lowerEvapDepth |-> 0, lowerLossCoeff |-> 0,
     bottomElev |-> 0, waterTableElev |-> 0, upperMoisture |-> 0,
     upperEvapPat |-> 0]

\* gwater_readAquiferParams as a function of the aquifer record a and the
\* line: the error returned and the record left
ReadAquifer(a, line) ==
    LET p == IF line.ntoks > 13 THEN project_findObject(line.pattern) ELSE -1
    IN  IF line.ntoks < 13 THEN [err |-> <<"ERR_ITEMS", "">>, a |-> a]
        ELSE IF line.id # "A1"
        THEN [err |-> <<"ERR_NAME", line.id>>, a |-> a]
        ELSE IF line.bad \in 1..12
        THEN [err |-> <<"ERR_NUMBER", BadNumber>>, a |-> a]
        ELSE IF line.ntoks > 13 /\ p < 0
        THEN [err |-> <<"ERR_NAME", line.pattern>>, a |-> a]
        ELSE [err |-> NoError,
              a |-> [ID |-> line.id,
                     porosity |-> line.porosity,
                     wiltingPoint |-> 2,
                     fieldCapacity |-> 6,
                     conductivity |-> Div(32, UCF_RAINFALL),
                     conductSlope |-> 1,
                     tensionSlope |-> Div(4, UCF_LENGTH),
                     upperEvapFrac |-> S \div 2,
                     lowerEvapDepth |-> Div(14, UCF_LENGTH),
                     lowerLossCoeff |-> Div(0, UCF_RAINFALL),
                     bottomElev |-> Div(0, UCF_LENGTH),
                     waterTableElev |-> Div(4, UCF_LENGTH),
                     upperMoisture |-> 5,
                     upperEvapPat |-> p]]

\* gwater_readAquiferParams(j, tok, ntoks)
gwater_readAquiferParams(j, line) ==
    /\ phase.aq = {} /\ phase.sub = {} /\ step.pc = "idle"
    /\ \E r \in {ReadAquifer(Aquifer[j], line)} :
          /\ Aquifer' = [Aquifer EXCEPT ![j] = r.a]
          /\ last' = [NoOp EXCEPT !.op = "readAquiferParams", !.j = j,
                                  !.line = line, !.err = r.err]
    /\ UNCHANGED <<Landuse, landFactor>>
    /\ UNCHANGED <<Subcatch, Node, Evap, NewRunoffMonth, GwaterShared,
                   ErrorCode, phase, step, massbal, stats, hotstart>>

\* gwater_readGroundwaterParams creating the groundwater object before it
\* reads the numbers
ReadGroundwater_createFirst(sub, line, mallocOK) ==
    LET j == project_findObject(line.subcatch)
        k == project_findObject(line.aquifer)
        n == project_findObject(line.node)
        created == [sub EXCEPT ![j].groundwater = TRUE, ![j].gw = GwBase]
        keep(e) == [err |-> e, sub |-> sub, mallocs |-> 0]
    IN  IF line.ntoks < 3 THEN keep(<<"ERR_ITEMS", "">>)
        ELSE IF j < 0 THEN keep(<<"ERR_NAME", line.subcatch>>)
        ELSE IF line.ntoks < 11 THEN keep(<<"ERR_ITEMS", "">>)
        ELSE IF k < 0 THEN keep(<<"ERR_NAME", line.aquifer>>)
        ELSE IF n < 0 THEN keep(<<"ERR_NAME", line.node>>)
        ELSE IF ~sub[j].groundwater /\ ~mallocOK
        THEN [err |-> <<"ERR_MEMORY", "">>, sub |-> sub, mallocs |-> 1]
        ELSE IF line.bad \in 3..9 \/ (line.bad \in 10..13 /\ line.ntoks > line.bad)
        THEN [err |-> <<"ERR_NUMBER", BadNumber>>,
              sub |-> IF sub[j].groundwater THEN sub ELSE created,
              mallocs |-> IF sub[j].groundwater THEN 0 ELSE 1]
        ELSE [err |-> NoError,
              sub |-> [sub EXCEPT
                 ![j].groundwater = TRUE,
                 ![j].gw = [(IF sub[j].groundwater THEN @ ELSE GwBase) EXCEPT
                     !.aquifer = k, !.node = n,
                     !.surfElev = Div(16, UCF_LENGTH),
                     !.a1 = line.a1, !.b1 = 0, !.a2 = 0, !.b2 = 0, !.a3 = 0,
                     !.fixedDepth = Div(0, UCF_LENGTH),
                     !.nodeElev = MISSING, !.bottomElev = MISSING,
                     !.waterTableElev =
                        IF line.ntoks > 12 /\ line.waterTable # "*"
                        THEN Div(getDouble(line.waterTable), UCF_LENGTH)
                        ELSE MISSING,
                     !.upperMoisture = MISSING]],
              mallocs |-> IF sub[j].groundwater THEN 0 ELSE 1]

\* gwater_readGroundwaterParams as a function of the subcatchments, the line
\* and the outcome of malloc: the error returned, the subcatchments left and
\* the number of groundwater objects allocated
ReadGroundwater(sub, line, mallocOK) ==
    LET j == project_findObject(line.subcatch)
        k == project_findObject(line.aquifer)
        n == project_findObject(line.node)
        keep(e) == [err |-> e, sub |-> sub, mallocs |-> 0]
    IN  IF line.ntoks < 3 THEN keep(<<"ERR_ITEMS", "">>)
        ELSE IF j < 0 THEN keep(<<"ERR_NAME", line.subcatch>>)
        ELSE IF line.ntoks < 11 THEN keep(<<"ERR_ITEMS", "">>)
        ELSE IF k < 0 THEN keep(<<"ERR_NAME", line.aquifer>>)
        ELSE IF n < 0 THEN keep(<<"ERR_NAME", line.node>>)
        ELSE IF line.bad \in 3..9 \/ (line.bad \in 10..13 /\ line.ntoks > line.bad)
        THEN keep(<<"ERR_NUMBER", BadNumber>>)
        ELSE IF ~sub[j].groundwater /\ ~mallocOK
        THEN [err |-> <<"ERR_MEMORY", "">>, sub |-> sub, mallocs |-> 1]
        ELSE [err |-> NoError,
              sub |-> [sub EXCEPT
                 ![j].groundwater = TRUE,
                 ![j].gw = [(IF sub[j].groundwater THEN @ ELSE GwBase) EXCEPT
                     !.aquifer = k, !.node = n,
                     !.surfElev = Div(16, UCF_LENGTH),
                     !.a1 = line.a1, !.b1 = 0, !.a2 = 0, !.b2 = 0, !.a3 = 0,
                     !.fixedDepth = Div(0, UCF_LENGTH),
                     !.nodeElev = MISSING, !.bottomElev = MISSING,
                     !.waterTableElev =
                        IF line.ntoks > 12 /\ line.waterTable # "*"
                        THEN Div(getDouble(line.waterTable), UCF_LENGTH)
                        ELSE MISSING,
                     !.upperMoisture = MISSING]],
              mallocs |-> IF sub[j].groundwater THEN 0 ELSE 1]

\* gwater_readGroundwaterParams(tok, ntoks); malloc succeeds or fails
gwater_readGroundwaterParams(line, mallocOK) ==
    /\ phase.aq = {} /\ phase.sub = {} /\ step.pc = "idle"
    /\ \E r \in {ReadGroundwater(Subcatch, line, mallocOK)} :
          /\ Subcatch' = r.sub
          /\ last' = [NoOp EXCEPT !.op = "readGroundwaterParams",
                                  !.j = project_findObject(line.subcatch),
                                  !.line = line, !.err = r.err,
                                  !.rt = r.mallocs]
    /\ UNCHANGED <<Landuse, landFactor>>
    /\ UNCHANGED <<Aquifer, Node, Evap, NewRunoffMonth, GwaterShared,
                   ErrorCode, phase, step, massbal, stats, hotstart>>

\* the project before its [AQUIFERS] and [GROUNDWATER] lines are read
InitRead ==
    /\ Aquifer = [k \in {1} |-> AqZero]
    /\ Subcatch = [j \in {1} |-> [SubBase EXCEPT !.groundwater = FALSE]]
    /\ Node = [n \in {1} |-> NodeDry]
    /\ Evap = [rate |-> 0]
    /\ NewRunoffMonth = 1
    /\ GwaterShared = NoContext
    /\ ErrorCode = 0
    /\ phase = [aq |-> {}, sub |-> {}, init |-> {}]
    /\ step = Idle
    /\ massbal = NoCall5
    /\ stats = NoCallStats
    /\ hotstart = <<0, 0, 0, 0>>
    /\ Landuse = NoLanduse
    /\ landFactor = NoLanduse
    /\ last = NoOp

NextRead ==
    \/ \E j \in DOMAIN Aquifer, line \in AquiferLines :
          gwater_readAquiferParams(j, line)
    \/ \E line \in GroundwaterLines, mallocOK \in BOOLEAN :
          gwater_readGroundwaterParams(line, mallocOK)

SpecRead == InitRead /\ [][NextRead]_vars

\* C29: a gwater_readAquiferParams call that returns an error leaves the
\* aquifer records as they were, a gwater_readGroundwaterParams call that
\* returns an error leaves the subcatchments as they were, no groundwater
\* object created; a second line for a subcatchment allocates no object and
\* leaves the object holding the values of that line.
C29_ReadFrame ==
    [][ /\ (last'.op = "readAquiferParams" /\ last'.err # NoError)
             => Aquifer' = Aquifer
        /\ (last'.op = "readGroundwaterParams" /\ last'.err # NoError)
             => Subcatch' = Subcatch
        /\ ( /\ last'.op = "readGroundwaterParams" /\ last'.err = NoError
             /\ Subcatch[last'.j].groundwater )
             => /\ last'.rt = 0
                /\ Subcatch'[last'.j].groundwater
                /\ Subcatch'[last'.j].gw
                     = ReadGroundwater(
                          [Subcatch EXCEPT ![last'.j].groundwater = FALSE],
                          last'.line, TRUE).sub[last'.j].gw ]_vars

\* a [GROUNDWATER] line with known names and an unreadable number was
\* refused while the subcatchment had no groundwater object
C29_Witness ==
    /\ last.op = "readGroundwaterParams"
    /\ last.err = <<"ERR_NUMBER", BadNumber>>
    /\ last.line.subcatch = "S1"
    /\ ~Subcatch[1].groundwater
    /\ Aquifer[1].ID = "A1"

\* ------------------------------------------------------------------ washoff

\* sp->Pollut[p].mcf: mass conversion factor of the pollutant
mcf == 1

\* the subcatchment area, and land use fractions in halves
WashoffArea == 8

\* IEEE arithmetic on the values of a washoff computation
IsNaN(x) == x = NAN
IsInf(x) == x \in {INF, -INF}

fmul(x, y) ==
    IF IsNaN(x) \/ IsNaN(y) THEN NAN
    ELSE IF IsInf(x) \/ IsInf(y)
    THEN (IF x = 0 \/ y = 0 THEN NAN
          ELSE IF (x > 0) = (y > 0) THEN INF ELSE -INF)
    ELSE x * y

fdiv(x, y) ==
    IF IsNaN(x) \/ IsNaN(y) THEN NAN
    ELSE IF IsInf(x) THEN (IF IsInf(y) THEN NAN
                           ELSE IF y >= 0 THEN x ELSE -x)
    ELSE IF IsInf(y) THEN 0
    ELSE IF y < 0 THEN Div(-x, -y)
    ELSE Div(x, y)

fsub(x, y) ==
    IF IsNaN(x) \/ IsNaN(y) THEN NAN
    ELSE IF IsInf(x) THEN (IF y = x THEN NAN ELSE x)
    ELSE IF IsInf(y) THEN -y
    ELSE x - y

\* x < y and x > y in doubles: false when either is not a number
fless(x, y) == ~IsNaN(x) /\ ~IsNaN(y) /\ x < y
fgreater(x, y) == fless(y, x)

\* pow(x, b) for an integer exponent b
fpow(x, b) == IF b >= 0 THEN Pow(x, b) ELSE fdiv(1, Pow(x, -b))

\* the macro MIN(x,y) (((x)<(y)) ? (x) : (y))
MINd(x, y) == IF fless(x, y) THEN x ELSE y

\* landuse_getWashoffQual(i, p, buildup, runoff, area), lu = sp->Landuse[i]
landuse_getWashoffQual(lu, buildup, runoff, area) ==
    IF lu.washoffFunc.funcType = "NO_WASHOFF" \/ runoff = 0 THEN 0
    ELSE IF lu.buildupFunc # "NO_BUILDUP" /\ buildup = 0 THEN 0
    ELSE IF lu.washoffFunc.funcType = "EXPON_WASHOFF"
    THEN fdiv(fdiv(fmul(fmul(lu.washoffFunc.coeff,
                             fpow(runoff * UCF_RAINFALL,
                                  lu.washoffFunc.expon)),
                        buildup), mcf),
              runoff * area)
    ELSE IF lu.washoffFunc.funcType = "RATING_WASHOFF"
    THEN fmul(lu.washoffFunc.coeff,
              fpow(runoff * area, lu.washoffFunc.expon - 1))
    ELSE IF lu.washoffFunc.funcType = "EMC_WASHOFF"
    THEN lu.washoffFunc.coeff
    ELSE 0

\* landuse_getWashoffLoad reducing the buildup by the whole computed load
WashoffLoad_noLimit(lu, lf, area, runoff, vOutflow) ==
    LET buildup0 == lf.buildup
        landuseArea == (lf.fraction * area) \div 2
        washoffQual ==
            landuse_getWashoffQual(lu, buildup0, runoff, landuseArea)
        raw == fmul(fdiv(fmul(fmul(washoffQual, vOutflow), landuseArea),
                         area), mcf)
        reduce == lu.buildupFunc # "NO_BUILDUP" \/ fgreater(buildup0, raw)
        washoffLoad == raw
        bmpRemoval == fdiv(fmul(lu.washoffFunc.bmpEffic, washoffLoad), 2)
        exported == IF fgreater(bmpRemoval, 0)
                    THEN fsub(washoffLoad, bmpRemoval) ELSE washoffLoad
    IN  [buildup |-> IF reduce THEN fsub(buildup0, washoffLoad) ELSE 0,
         raw |-> raw,
         load |-> washoffLoad,
         balanced |-> ~reduce,
         result |-> fdiv(exported, mcf)]

\* landuse_getWashoffLoad(i, p, area, landFactor, runoff, vOutflow) as a
\* function of lu = sp->Landuse[i] and lf = landFactor[i]: the buildup left,
\* the load computed, the load washed off, whether it went to the buildup
\* totals, and the value returned
WashoffLoad(lu, lf, area, runoff, vOutflow) ==
    LET buildup0 == lf.buildup
        landuseArea == (lf.fraction * area) \div 2
        washoffQual ==
            landuse_getWashoffQual(lu, buildup0, runoff, landuseArea)
        raw == fmul(fdiv(fmul(fmul(washoffQual, vOutflow), landuseArea),
                         area), mcf)
        reduce == lu.buildupFunc # "NO_BUILDUP" \/ fgreater(buildup0, raw)
        washoffLoad == IF reduce THEN MINd(raw, buildup0) ELSE raw
        bmpRemoval == fdiv(fmul(lu.washoffFunc.bmpEffic, washoffLoad), 2)
        exported == IF fgreater(bmpRemoval, 0)
                    THEN fsub(washoffLoad, bmpRemoval) ELSE washoffLoad
    IN  [buildup |-> IF reduce THEN fsub(buildup0, washoffLoad) ELSE 0,
         raw |-> raw,
         load |-> washoffLoad,
         balanced |-> ~reduce,
         result |-> fdiv(exported, mcf)]

\* landuse_getWashoffLoad(i, p, area, landFactor, runoff, vOutflow)
landuse_getWashoffLoad(i, runoff, vOutflow) ==
    /\ \E r \in {WashoffLoad(Landuse[i], landFactor[i], WashoffArea,
                             runoff, vOutflow)} :
          /\ landFactor' = [landFactor EXCEPT ![i].buildup = r.buildup]
          /\ last' = [NoOp EXCEPT !.op = "getWashoffLoad", !.j = i,
                         !.x = <<landFactor[i].buildup, r.raw, r.load,
                                 r.result>>]
    /\ UNCHANGED <<Aquifer, Subcatch, Node, Evap, NewRunoffMonth,
                   GwaterShared, ErrorCode, phase, step, massbal, stats,
                   hotstart, Landuse>>

\* two land uses with the same washoff function, the first with a buildup
\* function and the second without, sharing the subcatchment's area
InitWashoff ==
    /\ \E func \in {"NO_WASHOFF", "EXPON_WASHOFF", "RATING_WASHOFF",
                    "EMC_WASHOFF"},
          coeff \in {0, 3}, expon \in {0, 1, 2}, bmpEffic \in {0, 1},
          f \in {0, 1, 2}, b1 \in {0, 5, 40}, b2 \in {0, 5, 40} :
          /\ Landuse =
               [i \in {1, 2} |->
                  [buildupFunc |-> IF i = 1 THEN "POWER_BUILDUP"
                                   ELSE "NO_BUILDUP",
                   washoffFunc |-> [funcType |-> func, coeff |-> coeff,
                                    expon |-> expon, bmpEffic |-> bmpEffic]]]
          /\ landFactor =
               [i \in {1, 2} |->
                  [fraction |-> IF i = 1 THEN f ELSE 2 - f,
                   buildup |-> IF i = 1 THEN b1 ELSE b2]]
    /\ Aquifer = [k \in {1} |-> AqBase]
    /\ Subcatch = [j \in {1} |-> [SubBase EXCEPT !.groundwater = FALSE]]
    /\ Node = [n \in {1} |-> NodeDry]
    /\ Evap = [rate |-> 0]
    /\ NewRunoffMonth = 1
    /\ GwaterShared = NoContext
    /\ ErrorCode = 0
    /\ phase = [aq |-> {}, sub |-> {}, init |-> {}]
    /\ step = Idle
    /\ massbal = NoCall5
    /\ stats = NoCallStats
    /\ hotstart = <<0, 0, 0, 0>>
    /\ last = NoOp

NextWashoff ==
    \E i \in DOMAIN Landuse, runoff \in {0, 1, 4}, vOutflow \in {0, 2, 6} :
       landuse_getWashoffLoad(i, runoff, vOutflow)

SpecWashoff == InitWashoff /\ [][NextWashoff]_vars

\* C30: in a run of landuse_getWashoffLoad calls with runoff >= 0 and outflow
\* volume >= 0 every stored buildup is a number >= 0, and the load a call
\* washes off a land use that has a buildup function is at most the buildup
\* stored before the call.
C30_BuildupKept ==
    /\ \A i \in DOMAIN landFactor :
          /\ landFactor[i].buildup >= 0
          /\ ~IsNaN(landFactor[i].buildup) /\ ~IsInf(landFactor[i].buildup)
    /\ (last.op = "getWashoffLoad" /\ Landuse[last.j].buildupFunc # "NO_BUILDUP")
          => /\ ~IsNaN(last.x[3])
             /\ last.x[3] <= last.x[1]

\* a call computed a load above the stored buildup of a land use with a
\* buildup function and washed off the whole buildup
C30_Witness ==
    /\ last.op = "getWashoffLoad"
    /\ Landuse[last.j].buildupFunc # "NO_BUILDUP"
    /\ last.x[1] > 0
    /\ fgreater(last.x[2], last.x[1])
    /\ last.x[3] = last.x[1]
    /\ landFactor[last.j].buildup = 0

====
